---- MODULE Spec2Model ----
(***************************************************************************)
(* Completion pipeline of ruff_lsp/complete.py: the list handler           *)
(* jedi_completion, the resolve handler jedi_completion_item_resolve, the  *)
(* candidate formatter, the markup negotiator and the snippet heuristic.   *)
(*                                                                         *)
(* Python strings that the code inspects (names, labels, insert texts,     *)
(* source text) are sequences of one-character strings; a dict is a        *)
(* function from its keys; None is the string "None".                      *)
(***************************************************************************)
EXTENDS Integers, Sequences, FiniteSets, TLC

VARIABLES JEDI_SHARED_DATA, call, ret, lastList, prevList, inflight, tableId,
          LABEL_RESOLVER, SNIPPET_RESOLVER, JEDI_ENVIRONMENTS, script

\* the caches of the two resolvers
resolvers == <<LABEL_RESOLVER, SNIPPET_RESOLVER>>

\* the environment cache and the jedi.Script of the last backend query
environments == <<JEDI_ENVIRONMENTS, script>>

vars == <<JEDI_SHARED_DATA, call, ret, lastList, prevList, inflight, tableId,
          resolvers, environments>>

(***************************************************************************)
(* Bounds                                                                  *)
(***************************************************************************)
\* the backend returns at most MaxCands candidates for one request
MaxCands == 2

(***************************************************************************)
(* Python values                                                           *)
(***************************************************************************)
None == "None"

EmptyDict == <<>>

\* dict.get(key, default)
Get(d, key, default) == IF key \in DOMAIN d THEN d[key] ELSE default

Min(a, b) == IF a < b THEN a ELSE b

\* s[:n] for n >= 0
Prefix(s, n) == SubSeq(s, 1, Min(n, Len(s)))

\* s[n:] for n >= 0 (0-based n)
Suffix(s, n) == SubSeq(s, n + 1, Len(s))

\* str.endswith(c) and str.startswith(c) for a one-character c
EndsWith(s, c) == Len(s) > 0 /\ s[Len(s)] = c

StartsWith(s, c) == Len(s) > 0 /\ s[1] = c

\* c in s, for a one-character c
Contains(s, c) == \E i \in 1..Len(s) : s[i] = c

\* the characters str.strip() removes
Whitespace == {" ", "\n"}

RECURSIVE RStrip(_)
RStrip(s) == IF Len(s) > 0 /\ s[Len(s)] \in Whitespace
             THEN RStrip(SubSeq(s, 1, Len(s) - 1)) ELSE s

RECURSIVE LStrip(_)
LStrip(s) == IF Len(s) > 0 /\ s[1] \in Whitespace THEN LStrip(Tail(s)) ELSE s

Strip(s) == LStrip(RStrip(s))

\* the index of the first c in s, 0 when there is none
RECURSIVE IndexOf(_, _, _)
IndexOf(s, c, from) ==
    IF from > Len(s) THEN 0
    ELSE IF s[from] = c THEN from ELSE IndexOf(s, c, from + 1)

\* the index of the last c in s, 0 when there is none
RECURSIVE LastIndexOf(_, _, _)
LastIndexOf(s, c, from) ==
    IF from < 1 THEN 0
    ELSE IF s[from] = c THEN from ELSE LastIndexOf(s, c, from - 1)

\* s.split(c, maxsplit): at most maxsplit cuts, the rest kept whole
RECURSIVE Split(_, _, _)
Split(s, c, maxsplit) ==
    LET i == IndexOf(s, c, 1)
    IN  IF maxsplit = 0 \/ i = 0 THEN <<s>>
        ELSE <<SubSeq(s, 1, i - 1)>> \o Split(Suffix(s, i), c, maxsplit - 1)

\* c.join(parts)
RECURSIVE Join(_, _)
Join(parts, c) ==
    IF Len(parts) = 0 THEN <<>>
    ELSE IF Len(parts) = 1 THEN parts[1]
    ELSE parts[1] \o <<c>> \o Join(Tail(parts), c)

\* s.rsplit(c, maxsplit=1)[-1]
RSplitLast(s, c) == Suffix(s, LastIndexOf(s, c, Len(s)))

\* s.replace(c, by) for a one-character c
RECURSIVE Replace(_, _, _)
Replace(s, c, by) ==
    IF Len(s) = 0 THEN <<>>
    ELSE (IF s[1] = c THEN by ELSE <<s[1]>>) \o Replace(Tail(s), c, by)

\* the elements of a sequence that satisfy a test
RECURSIVE SelectIdx(_, _, _)
SelectIdx(s, keep, i) ==
    IF i > Len(s) THEN <<>>
    ELSE (IF i \in keep THEN <<s[i]>> ELSE <<>>) \o SelectIdx(s, keep, i + 1)

\* the sequences of at most n different elements of S
RECURSIVE SeqsUpTo(_, _)
SeqsUpTo(S, n) ==
    IF n = 0 THEN {<<>>}
    ELSE LET shorter == SeqsUpTo(S, n - 1)
         IN  shorter \cup
             UNION {{Append(s, x) : x \in S \ {s[i] : i \in 1..Len(s)}} :
                      s \in {t \in shorter : Len(t) = n - 1}}

(***************************************************************************)
(* Markup negotiation                                                      *)
(***************************************************************************)
SERVER_SUPPORTED_MARKUP_KINDS == {"markdown", "plaintext"}

\* a negotiator that follows the server's order of preference
choose_markup_kind_server_order(client_supported_markup_kinds) ==
    IF Contains(client_supported_markup_kinds, "markdown") THEN "markdown"
    ELSE IF Contains(client_supported_markup_kinds, "plaintext") THEN "plaintext"
    ELSE "markdown"

\* the first kind of the client's list that the server supports, else markdown
RECURSIVE choose_markup_kind(_)
choose_markup_kind(client_supported_markup_kinds) ==
    IF Len(client_supported_markup_kinds) = 0 THEN "markdown"
    ELSE IF Head(client_supported_markup_kinds) \in SERVER_SUPPORTED_MARKUP_KINDS
         THEN Head(client_supported_markup_kinds)
         ELSE choose_markup_kind(Tail(client_supported_markup_kinds))

\* completion_capabilities.get("completionItem", {})
ItemCapabilities(completion_capabilities) ==
    Get(completion_capabilities, "completionItem", EmptyDict)

\* choose_markup_kind(item_capabilities.get("documentationFormat", ["markdown"]))
PreferredMarkupKind(completion_capabilities) ==
    choose_markup_kind(Get(ItemCapabilities(completion_capabilities),
                           "documentationFormat", <<"markdown">>))

\* item_capabilities.get("snippetSupport"), as the truth value the code tests
SnippetSupport(completion_capabilities) ==
    Get(ItemCapabilities(completion_capabilities), "snippetSupport", FALSE)

(***************************************************************************)
(* Candidates of the introspection backend (jedi Completion objects).      *)
(* A candidate has a name, a type tag, its signatures, a raw docstring,    *)
(* its own full_name and the full_name of its parent (parent "missing":    *)
(* parent() returns None, so .full_name raises AttributeError).            *)
(***************************************************************************)
foo == <<"f", "o", "o">>

KeyError == <<"K", "e", "y", "E", "r", "r", "o", "r">>

ValueError == <<"V", "a", "l", "u", "e", "E", "r", "r", "o", "r">>

LookupError == <<"L", "o", "o", "k", "u", "p", "E", "r", "r", "o", "r">>

dir_path == <<"d", "/">>

Param(n, req) == [name |-> n, required |-> req]

\* a function foo(a, b=...) defined in module m1
fooA ==
    [name |-> foo, type |-> "function",
     sigs |-> << [params |-> <<Param(<<"a">>, TRUE), Param(<<"b">>, FALSE)>>,
                  text |-> "foo(a, b=1)"] >>,
     doc |-> [text |-> "docA", known_format |-> FALSE],
     full_name |-> "m1.foo", parent |-> "m1", raises |-> FALSE]

\* another function foo, defined in module m2, with the same rendered signature
fooB ==
    [name |-> foo, type |-> "function",
     sigs |-> << [params |-> <<Param(<<"a">>, TRUE), Param(<<"b">>, FALSE)>>,
                  text |-> "foo(a, b=2)"] >>,
     doc |-> [text |-> "docB", known_format |-> TRUE],
     full_name |-> "m2.foo", parent |-> "m2", raises |-> FALSE]

\* the builtin class KeyError(LookupError)
candKeyError ==
    [name |-> KeyError, type |-> "class",
     sigs |-> << [params |-> <<>>, text |-> "KeyError()"] >>,
     doc |-> [text |-> "Mapping key not found.", known_format |-> FALSE],
     full_name |-> "builtins.KeyError", parent |-> "builtins", raises |-> FALSE]

\* the builtin class ValueError(Exception)
candValueError ==
    [name |-> ValueError, type |-> "class",
     sigs |-> << [params |-> <<>>, text |-> "ValueError()"] >>,
     doc |-> [text |-> "Inappropriate argument value.", known_format |-> FALSE],
     full_name |-> "builtins.ValueError", parent |-> "builtins", raises |-> FALSE]

\* a directory offered inside a string literal
candPath ==
    [name |-> dir_path, type |-> "path", sigs |-> <<>>,
     doc |-> [text |-> "", known_format |-> FALSE],
     full_name |-> None, parent |-> "missing", raises |-> FALSE]

\* a function whose docstring accessor raises
bar == <<"b", "a", "r">>

candRaising ==
    [name |-> bar, type |-> "function",
     sigs |-> << [params |-> <<>>, text |-> "bar()"] >>,
     doc |-> [text |-> "", known_format |-> FALSE],
     full_name |-> "m1.bar", parent |-> "m1", raises |-> TRUE]

\* a parameter with its default and its kind; it is required when it has no
\* default and is not of the *args or **kwargs kind
Parameter(n, has_default, star) ==
    [has_default |-> has_default, star |-> star]
        @@ Param(n, ~has_default /\ ~star)

everyone == <<"e", "v", "e", "r", "y", "o", "n", "e">>

\* def everyone(a, b, c=None, d=2, *args)
candEveryone ==
    [name |-> everyone, type |-> "function",
     sigs |-> << [params |-> <<Parameter(<<"a">>, FALSE, FALSE),
                               Parameter(<<"b">>, FALSE, FALSE),
                               Parameter(<<"c">>, TRUE, FALSE),
                               Parameter(<<"d">>, TRUE, FALSE),
                               Parameter(<<"a", "r", "g", "s">>, FALSE, TRUE)>>,
                  text |-> "everyone(a, b, c=None, d=2, *args)"] >>,
     doc |-> [text |-> "", known_format |-> FALSE],
     full_name |-> "m1.everyone", parent |-> "m1", raises |-> FALSE]

opt == <<"o", "p", "t">>

\* def opt(c=None, **kwargs)
candOptional ==
    [name |-> opt, type |-> "function",
     sigs |-> << [params |-> <<Parameter(<<"c">>, TRUE, FALSE),
                               Parameter(<<"k", "w", "a", "r", "g", "s">>,
                                         FALSE, TRUE)>>,
                  text |-> "opt(c=None, **kwargs)"] >>,
     doc |-> [text |-> "", known_format |-> FALSE],
     full_name |-> "m1.opt", parent |-> "m1", raises |-> FALSE]

Candidates ==
    {fooA, fooB, candKeyError, candValueError, candPath, candRaising}

(***************************************************************************)
(* Candidate formatter                                                     *)
(***************************************************************************)
\* a mapping that gives unknown tags the kind of plain text
TYPE_MAP_unknown_as_text(type) ==
    CASE type = "module"    -> "Module"
      [] type = "namespace" -> "Module"
      [] type = "class"     -> "Class"
      [] type = "instance"  -> "Reference"
      [] type = "function"  -> "Function"
      [] type = "param"     -> "Variable"
      [] type = "path"      -> "File"
      [] type = "keyword"   -> "Keyword"
      [] type = "property"  -> "Property"
      [] type = "statement" -> "Variable"
      [] OTHER              -> "Text"

\* _TYPE_MAP.get(d.type)
TYPE_MAP(type) ==
    CASE type = "module"    -> "Module"
      [] type = "namespace" -> "Module"
      [] type = "class"     -> "Class"
      [] type = "instance"  -> "Reference"
      [] type = "function"  -> "Function"
      [] type = "param"     -> "Variable"
      [] type = "path"      -> "File"
      [] type = "keyword"   -> "Keyword"
      [] type = "property"  -> "Property"
      [] type = "statement" -> "Variable"
      [] OTHER              -> None

\* a sort key that is the name alone
_sort_text_name_only(definition) == definition.name

_sort_text(definition) ==
    (IF StartsWith(definition.name, "_") THEN <<"z">> ELSE <<"a">>)
        \o definition.name

\* the names of the classes Exception.__subclasses__() returns: the DIRECT
\* subclasses of Exception (of the builtins: ValueError and LookupError are
\* among them, KeyError, a subclass of LookupError, is not)
Exception_subclasses == {ValueError, LookupError}

is_exception_class(name) == name \in Exception_subclasses

\* definition.parent().full_name or "", falling back on AttributeError to
\* definition.full_name or ""
_detail(definition) ==
    IF definition.parent = "missing"
    THEN (IF definition.full_name = None THEN "" ELSE definition.full_name)
    ELSE (IF definition.parent = None THEN "" ELSE definition.parent)

\* [signature.to_string() for signature in d.get_signatures()]
SignatureStrings(d) == [i \in 1..Len(d.sigs) |-> d.sigs[i].text]

\* format_docstring: docstring_to_markdown.convert, escape_markdown,
\* escape_plain_text and wrap_signature are kept as the terms they build
format_docstring(contents, markup_kind, signatures) ==
    IF markup_kind = "markdown"
    THEN IF contents.known_format
         THEN [kind |-> "markdown",
               value |-> [convert |-> contents.text]]
         ELSE [kind |-> "markdown",
               value |-> [wrap_signature |-> signatures,
                          escape_markdown |-> contents.text]]
    ELSE [kind |-> "plaintext",
          value |-> [escape_plain_text |->
                        [signatures |-> signatures, contents |-> contents.text]]]

\* documentation computed with no try/except around the accessors
Documentation_unguarded(d, markup_kind) ==
    format_docstring(d.doc, markup_kind, SignatureStrings(d))

\* the documentation _resolve_completion computes; an exception raised by the
\* docstring or signature accessors or by the formatter gives the str "",
\* written [kind |-> "str", value |-> ""]
Documentation(d, markup_kind) ==
    IF d.raises THEN [kind |-> "str", value |-> ""]
    ELSE format_docstring(d.doc, markup_kind, SignatureStrings(d))

_resolve_completion(completion, d, markup_kind) ==
    [detail |-> _detail(d), documentation |-> Documentation(d, markup_kind)]
        @@ completion

\* LABEL_RESOLVER.get_or_create(definition): the name followed by the rendered
\* parameter list of the first signature, "name(a, b)"; "" without signature
RECURSIVE RenderParams(_)
RenderParams(params) ==
    IF Len(params) = 0 THEN <<>>
    ELSE IF Len(params) = 1 THEN params[1].name
    ELSE params[1].name \o <<",", " ">> \o RenderParams(Tail(params))

LABEL_RESOLVER_get_or_create(definition) ==
    IF Len(definition.sigs) = 0 THEN <<>>
    ELSE definition.name \o <<"(">> \o RenderParams(definition.sigs[1].params)
             \o <<")">>

Digits == <<"1", "2", "3", "4", "5", "6", "7", "8", "9">>

\* "${1:p1}, ${2:p2}" for the parameters ps, numbered from i
RECURSIVE Placeholders(_, _)
Placeholders(ps, i) ==
    IF Len(ps) = 0 THEN <<>>
    ELSE <<"$", "{", Digits[i], ":">> \o ps[1].name \o <<"}">>
         \o (IF Len(ps) = 1 THEN <<>>
             ELSE <<",", " ">> \o Placeholders(Tail(ps), i + 1))

\* the parameters without default of a signature, in declaration order
RequiredParams(sig) ==
    SelectIdx(sig.params, {i \in 1..Len(sig.params) : sig.params[i].required}, 1)

\* a snippet with a placeholder for every parameter of the signature
SNIPPET_RESOLVER_get_or_create_all_params(definition) ==
    IF Len(definition.sigs) = 0 THEN EmptyDict
    ELSE [insert_text_format |-> "Snippet",
          insert_text |->
              definition.name \o <<"(">>
                  \o Placeholders(definition.sigs[1].params, 1)
                  \o <<")", "$", "0">>]

\* SNIPPET_RESOLVER.get_or_create(definition): the dict that overrides the
\* item's insert text; {} without signature
SNIPPET_RESOLVER_get_or_create(definition) ==
    IF Len(definition.sigs) = 0 THEN EmptyDict
    ELSE LET req == RequiredParams(definition.sigs[1])
         IN  [insert_text_format |-> "Snippet",
              insert_text |->
                  IF Len(req) = 0
                  THEN definition.name \o <<"(", "$", "0", ")">>
                  ELSE definition.name \o <<"(">> \o Placeholders(req, 1)
                           \o <<")", "$", "0">>]

\* The cache of a resolver: for every defining scope it holds, the names it
\* has computed a value for, the scopes in the order of their last population;
\* evicted records the scopes evicted so far.  The value get_or_create returns
\* is the one it computes, cached or not.
Unbounded == [bounded |-> FALSE]

AtMost(n) == [bounded |-> TRUE, max |-> n]

Resolver(limit) == [limit |-> limit, scopes |-> <<>>, evicted |-> {}]

\* the place of a scope among the cached scopes, 0 when it is not cached
RECURSIVE ScopeIndex(_, _, _)
ScopeIndex(scopes, scope, i) ==
    IF i > Len(scopes) THEN 0
    ELSE IF scopes[i].scope = scope THEN i ELSE ScopeIndex(scopes, scope, i + 1)

\* scopes without its i-th element
RemoveAt(scopes, i) == SubSeq(scopes, 1, i - 1) \o SubSeq(scopes, i + 1, Len(scopes))

\* a cache that, over its bound, drops one name of the oldest scope only
Resolver_get_or_create_dropping_one_name(resolver, definition) ==
    LET scope == definition.parent
        i == ScopeIndex(resolver.scopes, scope, 1)
        names == IF i = 0 THEN {} ELSE resolver.scopes[i].names
        populated ==
            (IF i = 0 THEN resolver.scopes ELSE RemoveAt(resolver.scopes, i))
            \o <<[scope |-> scope, names |-> names \cup {definition.name}]>>
        oldest == populated[1]
        dropped == CHOOSE name \in oldest.names : TRUE
    IN  IF definition.name \in names THEN resolver
        ELSE IF resolver.limit.bounded /\ Len(populated) > resolver.limit.max
        THEN [resolver EXCEPT
                 !.scopes = IF oldest.names = {dropped} THEN Tail(populated)
                            ELSE <<[oldest EXCEPT !.names = @ \ {dropped}]>>
                                 \o Tail(populated),
                 !.evicted = @ \cup {oldest.scope}]
        ELSE [resolver EXCEPT !.scopes = populated]

\* the cache after get_or_create(definition): a hit changes nothing; a miss
\* adds the name to its scope, which becomes the most recently populated one,
\* and evicts the least recently populated scope as a whole when the scopes
\* are more than the bound
Resolver_get_or_create(resolver, definition) ==
    LET scope == definition.parent
        i == ScopeIndex(resolver.scopes, scope, 1)
        names == IF i = 0 THEN {} ELSE resolver.scopes[i].names
        populated ==
            (IF i = 0 THEN resolver.scopes ELSE RemoveAt(resolver.scopes, i))
            \o <<[scope |-> scope, names |-> names \cup {definition.name}]>>
    IN  IF definition.name \in names THEN resolver
        ELSE IF resolver.limit.bounded /\ Len(populated) > resolver.limit.max
        THEN [resolver EXCEPT !.scopes = Tail(populated),
                              !.evicted = @ \cup {populated[1].scope}]
        ELSE [resolver EXCEPT !.scopes = populated]

_label_always_resolved(definition, resolve) ==
    LET sig == LABEL_RESOLVER_get_or_create(definition)
    IN  IF Len(sig) > 0 THEN sig ELSE definition.name

_label(definition, resolve) ==
    IF ~resolve THEN definition.name
    ELSE LET sig == LABEL_RESOLVER_get_or_create(definition)
         IN  IF Len(sig) > 0 THEN sig ELSE definition.name

_snippet(definition, resolve) ==
    IF ~resolve THEN EmptyDict
    ELSE SNIPPET_RESOLVER_get_or_create(definition)

\* os.path.normpath of a relative or absolute POSIX path without ".."
\* components: empty and "." components dropped, "" becomes "."
normpath(path) ==
    LET parts == Split(path, "/", Len(path))
        kept  == SelectIdx(parts, {i \in 1..Len(parts) :
                                     parts[i] # <<>> /\ parts[i] # <<".">>}, 1)
        body  == Join(kept, "/")
    IN  IF StartsWith(path, "/") THEN <<"/">> \o body
        ELSE IF Len(body) = 0 THEN <<".">> ELSE body

\* the insert text of a path candidate: backslashes doubled, slashes escaped
EscapedPath(name) ==
    Replace(Replace(normpath(name), "\\", <<"\\", "\\">>), "/", <<"\\", "/">>)

\* a formatter that attaches documentation only below the budget
_format_completion_docs_below_budget(d, markup_kind, include_params, resolve, resolve_label_or_snippet) ==
    LET completion == [label |-> _label(d, resolve_label_or_snippet),
                       kind |-> TYPE_MAP(d.type),
                       sort_text |-> _sort_text(d),
                       insert_text |-> d.name]
        resolved == IF resolve /\ resolve_label_or_snippet
                    THEN _resolve_completion(completion, d, markup_kind)
                    ELSE completion
        pathed == IF d.type = "path"
                  THEN [insert_text |-> EscapedPath(d.name)] @@ resolved
                  ELSE resolved
    IN  IF include_params /\ ~is_exception_class(d.name)
        THEN _snippet(d, resolve_label_or_snippet) @@ pathed
        ELSE pathed

_format_completion(d, markup_kind, include_params, resolve, resolve_label_or_snippet) ==
    LET completion == [label |-> _label(d, resolve_label_or_snippet),
                       kind |-> TYPE_MAP(d.type),
                       sort_text |-> _sort_text(d),
                       insert_text |-> d.name]
        resolved == IF resolve THEN _resolve_completion(completion, d, markup_kind)
                    ELSE completion
        pathed == IF d.type = "path"
                  THEN [insert_text |-> EscapedPath(d.name)] @@ resolved
                  ELSE resolved
    IN  IF include_params /\ ~is_exception_class(d.name)
        THEN _snippet(d, resolve_label_or_snippet) @@ pathed
        ELSE pathed

(***************************************************************************)
(* Snippet eligibility heuristic.  A source text is a sequence of tokens   *)
(* (a keyword, a name, a number, one punctuation character, " " or "\n"),  *)
(* each standing for one character position: position.character counts     *)
(* tokens.                                                                  *)
(***************************************************************************)
_IMPORTS == {"import_name", "import_from"}

_ERRORS == {"error_node"}

Punctuation == {"(", ")", ",", ";", "=", "\\", "\n", " ", "ERR"}

Keywords == {"import", "from"}

Numbers == {"1"}

IsName(t) == t \notin Punctuation \cup Keywords \cup Numbers

\* the tokens whose text holds the substring "import"
ImportBearing == {"import", "important"}

\* "import" in code
HasImportSubstring(code) == \E i \in 1..Len(code) : code[i] \in ImportBearing

\* parso's tokenizer: blanks dropped, a backslash-newline joins lines, a
\* newline inside parentheses is no NEWLINE, blank lines give no NEWLINE
RECURSIVE Lex(_, _, _)
Lex(code, depth, out) ==
    IF Len(code) = 0 THEN out
    ELSE LET t == Head(code)
             rest == Tail(code)
         IN  CASE t = " " -> Lex(rest, depth, out)
               [] t = "\\" ->
                    IF Len(rest) > 0 /\ Head(rest) = "\n"
                    THEN Lex(Tail(rest), depth, out)
                    ELSE Lex(rest, depth, Append(out, "ERR"))
               [] t = "\n" ->
                    IF depth > 0 \/ Len(out) = 0 \/ out[Len(out)] = "\n"
                    THEN Lex(rest, depth, out)
                    ELSE Lex(rest, depth, Append(out, "\n"))
               [] t = "(" -> Lex(rest, depth + 1, Append(out, t))
               [] t = ")" -> Lex(rest, IF depth > 0 THEN depth - 1 ELSE 0,
                                 Append(out, t))
               [] OTHER -> Lex(rest, depth, Append(out, t))

\* NAME ("," NAME)*
NameList(s) ==
    /\ Len(s) % 2 = 1
    /\ \A i \in 1..Len(s) : IF i % 2 = 1 THEN IsName(s[i]) ELSE s[i] = ","

\* NAME ("," NAME)* [","]
NameListTrailingComma(s) ==
    \/ NameList(s)
    \/ Len(s) >= 2 /\ s[Len(s)] = "," /\ NameList(SubSeq(s, 1, Len(s) - 1))

\* import NAME ("," NAME)*
IsImportName(s) ==
    Len(s) >= 2 /\ s[1] = "import" /\ NameList(Tail(s))

\* from NAME import (NAME ("," NAME)* | "(" NAME ("," NAME)* [","] ")")
IsImportFrom(s) ==
    /\ Len(s) >= 4
    /\ s[1] = "from" /\ IsName(s[2]) /\ s[3] = "import"
    /\ LET targets == SubSeq(s, 4, Len(s))
       IN  \/ NameList(targets)
           \/ /\ Len(targets) >= 3
              /\ targets[1] = "(" /\ targets[Len(targets)] = ")"
              /\ NameListTrailingComma(SubSeq(targets, 2, Len(targets) - 1))

\* the parenthesis depth after the first i tokens of s
RECURSIVE Depth(_, _)
Depth(s, i) ==
    IF i = 0 THEN 0
    ELSE Depth(s, i - 1) + (IF s[i] = "(" THEN 1 ELSE IF s[i] = ")" THEN -1 ELSE 0)

IsOperand(t) == IsName(t) \/ t \in Numbers

\* an expression or assignment statement over names, numbers, calls, tuples
IsExprStmt(s) ==
    /\ Len(s) >= 1
    /\ \A i \in 1..Len(s) : IsOperand(s[i]) \/ s[i] \in {"(", ")", ",", "="}
    /\ \A i \in 1..Len(s) : Depth(s, i) >= 0
    /\ Depth(s, Len(s)) = 0
    /\ IsOperand(s[1]) \/ s[1] = "("
    /\ \A i \in 1..(Len(s) - 1) :
          LET a == s[i]
              b == s[i + 1]
          IN  CASE IsOperand(a) \/ a = ")" -> b \in {"(", ")", ",", "="}
                [] a = "("               -> IsOperand(b) \/ b \in {"(", ")"}
                [] a = ","               -> IsOperand(b) \/ b \in {"(", ")"}
                [] OTHER                 -> IsOperand(b) \/ b = "("
    /\ s[Len(s)] # "="
    /\ s[Len(s)] = "," => Len(s) >= 2

\* the type of an expression or assignment statement
ExprStmtType(s) ==
    LET top(c) == \E i \in 1..Len(s) : s[i] = c /\ Depth(s, i) = 0
    IN  IF top("=") THEN "expr_stmt"
        ELSE IF top(",") THEN "testlist_star_expr"
        ELSE IF Len(s) = 1 THEN (IF IsName(s[1]) THEN "name" ELSE "number")
        ELSE IF s[1] = "(" /\ \A i \in 1..(Len(s) - 1) : Depth(s, i) > 0
             THEN "atom"
        ELSE "atom_expr"

\* parso.parse(code).children[0].type
ParsoFirstChildType(code) ==
    LET toks == Lex(code, 0, <<>>)
        nl   == IndexOf(toks, "\n", 1)
        stmt == IF nl = 0 THEN toks ELSE SubSeq(toks, 1, nl - 1)
        more == nl # 0 /\ nl < Len(toks)
        valid == IsImportName(stmt) \/ IsImportFrom(stmt) \/ IsExprStmt(stmt)
    IN  IF Len(toks) = 0 THEN "endmarker"
        ELSE IF ~valid THEN "error_node"
        ELSE IF more THEN "simple_stmt"
        ELSE IF IsImportName(stmt) THEN "import_name"
        ELSE IF IsImportFrom(stmt) THEN "import_from"
        ELSE ExprStmtType(stmt)

\* the backward walk over continuation lines; line is the 0-based index of the
\* line looked at, st the accumulated act_lines and last_character
RECURSIVE WalkBack(_, _, _)
WalkBack(lines, line, st) ==
    IF line < 0 THEN st
    ELSE LET act_line == lines[line + 1]
             stripped == RStrip(act_line)
         IN  IF \/ EndsWith(stripped, "\\")
                \/ EndsWith(stripped, "(")
                \/ EndsWith(stripped, ",")
             THEN WalkBack(lines, line - 1,
                           [act_lines |-> <<act_line>> \o st.act_lines,
                            last_character |->
                                IF EndsWith(stripped, "(") THEN <<")">>
                                ELSE st.last_character])
             ELSE st

\* the statement fragment use_snippets hands to the parser
SnippetCode(document, position) ==
    LET lines  == Split(document.source, "\n", position.line)
        first  == [act_lines |-> <<Prefix(lines[position.line + 1],
                                           position.character)>>,
                   last_character |-> <<>>]
        walked == WalkBack(lines, position.line - 1, first)
        last_character ==
            IF Contains(Strip(walked.act_lines[Len(walked.act_lines)]), "(")
            THEN <<")">> ELSE walked.last_character
    IN  Strip(RSplitLast(Join(walked.act_lines, "\n"), ";")) \o last_character

\* a heuristic that never finds a position eligible
use_snippets_never(document, position) == FALSE

use_snippets_always(document, position) == TRUE

use_snippets(document, position) ==
    LET code == SnippetCode(document, position)
        expr_type == ParsoFirstChildType(code)
    IN  /\ expr_type \notin _IMPORTS
        /\ ~(expr_type \in _ERRORS /\ HasImportSubstring(code))

(***************************************************************************)
(* The list handler                                                        *)
(***************************************************************************)
DEFAULT_RESOLVE_AT_MOST == 25

object_suffix == <<" ", "o", "b", "j", "e", "c", "t">>

\* an "object" variant formatted with the parameter snippet left on
ObjectVariant_with_snippet(c, i, markup_kind, resolve_eagerly, max_to_resolve) ==
    LET completion_dict == _format_completion(c, markup_kind, TRUE,
                                              resolve_eagerly,
                                              (i - 1) < max_to_resolve)
    IN  [kind |-> "TypeParameter",
         label |-> completion_dict.label \o object_suffix] @@ completion_dict

\* the "object" variant of candidate c at 1-based index i (lines 83-92, 97-106)
ObjectVariant(c, i, markup_kind, resolve_eagerly, max_to_resolve) ==
    LET completion_dict == _format_completion(c, markup_kind, FALSE,
                                              resolve_eagerly,
                                              (i - 1) < max_to_resolve)
    IN  [kind |-> "TypeParameter",
         label |-> completion_dict.label \o object_suffix] @@ completion_dict

\* the variants of the candidates of one type, last candidate first
RECURSIVE ObjectVariants_reversed(_, _, _, _, _, _)
ObjectVariants_reversed(completions, type, i, markup_kind, resolve_eagerly, max_to_resolve) ==
    IF i > Len(completions) THEN <<>>
    ELSE ObjectVariants_reversed(completions, type, i + 1, markup_kind,
                                 resolve_eagerly, max_to_resolve)
         \o (IF completions[i].type = type
             THEN <<ObjectVariant(completions[i], i, markup_kind,
                                  resolve_eagerly, max_to_resolve)>>
             ELSE <<>>)

\* the variants of the candidates of one type, in backend order
RECURSIVE ObjectVariants(_, _, _, _, _, _)
ObjectVariants(completions, type, i, markup_kind, resolve_eagerly, max_to_resolve) ==
    IF i > Len(completions) THEN <<>>
    ELSE (IF completions[i].type = type
          THEN <<ObjectVariant(completions[i], i, markup_kind, resolve_eagerly,
                               max_to_resolve)>>
          ELSE <<>>)
         \o ObjectVariants(completions, type, i + 1, markup_kind,
                           resolve_eagerly, max_to_resolve)

\* ready_completions as returned: primaries, class variants, function
\* variants, each with its correlation data (lines 40-109)
ReadyCompletions(jedi_config, completion_capabilities, document, position, completions) ==
    LET resolve_eagerly == Get(jedi_config, "eager", FALSE)
        snippet_support == SnippetSupport(completion_capabilities)
        preferred_markup_kind == PreferredMarkupKind(completion_capabilities)
        should_include_params == Get(jedi_config, "include_params", FALSE)
        should_include_class_objects ==
            Get(jedi_config, "include_class_objects", FALSE)
        should_include_function_objects ==
            Get(jedi_config, "include_function_objects", FALSE)
        max_to_resolve == Get(jedi_config, "resolve_at_most", DEFAULT_RESOLVE_AT_MOST)
        include_params ==
            snippet_support /\ should_include_params
                /\ use_snippets(document, position)
        include_class_objects ==
            snippet_support /\ should_include_class_objects
                /\ use_snippets(document, position)
        include_function_objects ==
            snippet_support /\ should_include_function_objects
                /\ use_snippets(document, position)
        primaries ==
            [i \in 1..Len(completions) |->
                _format_completion(
                    completions[i], preferred_markup_kind,
                    IF completions[i].type \in {"class", "function"}
                    THEN include_params ELSE FALSE,
                    resolve_eagerly, (i - 1) < max_to_resolve)]
        class_objects ==
            IF include_class_objects
            THEN ObjectVariants(completions, "class", 1, preferred_markup_kind,
                                resolve_eagerly, max_to_resolve)
            ELSE <<>>
        function_objects ==
            IF include_function_objects
            THEN ObjectVariants(completions, "function", 1, preferred_markup_kind,
                                resolve_eagerly, max_to_resolve)
            ELSE <<>>
        all == primaries \o class_objects \o function_objects
    IN  [i \in 1..Len(all) |-> [data |-> [doc_uri |-> document.uri]] @@ all[i]]

\* a pairing of the last items of the list with the candidates
Zip_from_the_end(ready_completions, completions) ==
    LET n == Min(Len(ready_completions), Len(completions))
    IN  [i \in 1..n |->
            <<ready_completions[Len(ready_completions) - n + i], completions[i]>>]

\* zip(ready_completions, completions): pairs up to the shorter length
Zip(ready_completions, completions) ==
    [i \in 1..Min(Len(ready_completions), Len(completions)) |->
        <<ready_completions[i], completions[i]>>]

LastJediCompletions_first_wins(ready_completions, completions) ==
    LET pairs == Zip(ready_completions, completions)
    IN  [label \in {pairs[i][1].label : i \in 1..Len(pairs)} |->
            pairs[CHOOSE i \in 1..Len(pairs) :
                     /\ pairs[i][1].label = label
                     /\ \A j \in 1..Len(pairs) :
                           pairs[j][1].label = label => j >= i]]

\* {completion["label"]: (completion, data) for completion, data in zip(...)}:
\* a later pair with the same label replaces an earlier one
LastJediCompletions(ready_completions, completions) ==
    LET pairs == Zip(ready_completions, completions)
    IN  [label \in {pairs[i][1].label : i \in 1..Len(pairs)} |->
            pairs[CHOOSE i \in 1..Len(pairs) :
                     /\ pairs[i][1].label = label
                     /\ \A j \in 1..Len(pairs) :
                           pairs[j][1].label = label => j <= i]]

ListCall(jedi_config, completion_capabilities, document, position, completions) ==
    [op |-> "list", jedi_config |-> jedi_config,
     completion_capabilities |-> completion_capabilities,
     document |-> document, position |-> position, completions |-> completions]

jedi_completion(jedi_config, completion_capabilities, document, position, completions) ==
    /\ call' = ListCall(jedi_config, completion_capabilities, document,
                        position, completions)
    /\ IF Len(completions) = 0
       THEN \* return None, before anything is written
            /\ ret' = [status |-> "None"]
            /\ lastList' = [called |-> TRUE, completions |-> completions,
                            value |-> <<>>]
            /\ UNCHANGED JEDI_SHARED_DATA
       ELSE \E ready_completions \in
                   {ReadyCompletions(jedi_config, completion_capabilities,
                                     document, position, completions)} :
                /\ JEDI_SHARED_DATA' =
                       [k \in {"LAST_JEDI_COMPLETIONS"} |->
                           LastJediCompletions(ready_completions, completions)]
                /\ ret' = [status |-> "ok", value |-> ready_completions]
                /\ lastList' = [called |-> TRUE, completions |-> completions,
                                value |-> ready_completions]

\* a list call that first empties the table and then fails in the backend
jedi_completion_backend_raises_clearing(jedi_config, completion_capabilities, document, position) ==
    /\ call' = [op |-> "list", jedi_config |-> jedi_config,
                completion_capabilities |-> completion_capabilities,
                document |-> document, position |-> position,
                completions |-> <<>>]
    /\ ret' = [status |-> "raised", error |-> "BackendError"]
    /\ JEDI_SHARED_DATA' = [k \in {"LAST_JEDI_COMPLETIONS"} |-> EmptyDict]
    /\ UNCHANGED lastList

\* jedi_script(...).complete(...) raises: nothing catches it, the exception
\* leaves jedi_completion before any statement after line 35 has run
jedi_completion_backend_raises(jedi_config, completion_capabilities, document, position) ==
    /\ call' = [op |-> "list", jedi_config |-> jedi_config,
                completion_capabilities |-> completion_capabilities,
                document |-> document, position |-> position,
                completions |-> <<>>]
    /\ ret' = [status |-> "raised", error |-> "BackendError"]
    /\ UNCHANGED <<JEDI_SHARED_DATA, lastList>>

(***************************************************************************)
(* The resolve handler                                                     *)
(***************************************************************************)
ResolveCall(completion_capabilities, completion_item, index) ==
    [op |-> "resolve", completion_capabilities |-> completion_capabilities,
     completion_item |-> completion_item, index |-> index]

\* a resolve handler that answers from the table only for an item of the
\* document the stored item was listed for
jedi_completion_item_resolve_same_document(completion_capabilities, completion_item, index) ==
    LET preferred_markup_kind == PreferredMarkupKind(completion_capabilities)
    IN  /\ call' = ResolveCall(completion_capabilities, completion_item, index)
        /\ UNCHANGED lastList
        /\ IF "LAST_JEDI_COMPLETIONS" \notin DOMAIN JEDI_SHARED_DATA
           THEN /\ ret' = [status |-> "raised", error |-> "KeyError"]
                /\ UNCHANGED JEDI_SHARED_DATA
           ELSE LET last == JEDI_SHARED_DATA["LAST_JEDI_COMPLETIONS"]
                IN  IF /\ completion_item.label \in DOMAIN last
                       /\ last[completion_item.label][1].data = completion_item.data
                    THEN LET completion == last[completion_item.label][1]
                             data == last[completion_item.label][2]
                             resolved == _resolve_completion(
                                             completion, data, preferred_markup_kind)
                         IN  /\ JEDI_SHARED_DATA' =
                                    [k \in {"LAST_JEDI_COMPLETIONS"} |->
                                        [last EXCEPT ![completion_item.label] =
                                            <<resolved, data>>]]
                             /\ ret' = [status |-> "ok", value |-> resolved]
                    ELSE /\ ret' = [status |-> "ok", value |-> completion_item]
                         /\ UNCHANGED JEDI_SHARED_DATA

\* a resolve handler that keeps only the entry it resolved
jedi_completion_item_resolve_dropping_others(completion_capabilities, completion_item, index) ==
    LET preferred_markup_kind == PreferredMarkupKind(completion_capabilities)
    IN  /\ call' = ResolveCall(completion_capabilities, completion_item, index)
        /\ UNCHANGED lastList
        /\ IF "LAST_JEDI_COMPLETIONS" \notin DOMAIN JEDI_SHARED_DATA
           THEN /\ ret' = [status |-> "raised", error |-> "KeyError"]
                /\ UNCHANGED JEDI_SHARED_DATA
           ELSE LET last == JEDI_SHARED_DATA["LAST_JEDI_COMPLETIONS"]
                IN  IF completion_item.label \in DOMAIN last
                    THEN LET completion == last[completion_item.label][1]
                             data == last[completion_item.label][2]
                             resolved == _resolve_completion(
                                             completion, data, preferred_markup_kind)
                         IN  /\ JEDI_SHARED_DATA' =
                                    [k \in {"LAST_JEDI_COMPLETIONS"} |->
                                        [label \in {completion_item.label} |->
                                            <<resolved, data>>]]
                             /\ ret' = [status |-> "ok", value |-> resolved]
                    ELSE /\ ret' = [status |-> "ok", value |-> completion_item]
                         /\ UNCHANGED JEDI_SHARED_DATA

\* a resolve handler that adds detail and documentation to the item it was
\* given
jedi_completion_item_resolve_of_input(completion_capabilities, completion_item, index) ==
    LET preferred_markup_kind == PreferredMarkupKind(completion_capabilities)
    IN  /\ call' = ResolveCall(completion_capabilities, completion_item, index)
        /\ UNCHANGED lastList
        /\ IF "LAST_JEDI_COMPLETIONS" \notin DOMAIN JEDI_SHARED_DATA
           THEN /\ ret' = [status |-> "raised", error |-> "KeyError"]
                /\ UNCHANGED JEDI_SHARED_DATA
           ELSE LET last == JEDI_SHARED_DATA["LAST_JEDI_COMPLETIONS"]
                IN  IF completion_item.label \in DOMAIN last
                    THEN LET data == last[completion_item.label][2]
                             resolved == _resolve_completion(
                                             completion_item, data,
                                             preferred_markup_kind)
                         IN  /\ ret' = [status |-> "ok", value |-> resolved]
                             /\ UNCHANGED JEDI_SHARED_DATA
                    ELSE /\ ret' = [status |-> "ok", value |-> completion_item]
                         /\ UNCHANGED JEDI_SHARED_DATA

\* index: the place of completion_item in the list the client last received,
\* 0 for an item that is not of that list
jedi_completion_item_resolve(completion_capabilities, completion_item, index) ==
    LET preferred_markup_kind == PreferredMarkupKind(completion_capabilities)
    IN  /\ call' = ResolveCall(completion_capabilities, completion_item, index)
        /\ UNCHANGED lastList
        /\ IF "LAST_JEDI_COMPLETIONS" \notin DOMAIN JEDI_SHARED_DATA
           THEN \* JEDI_SHARED_DATA["LAST_JEDI_COMPLETIONS"] raises KeyError
                /\ ret' = [status |-> "raised", error |-> "KeyError"]
                /\ UNCHANGED JEDI_SHARED_DATA
           ELSE LET last == JEDI_SHARED_DATA["LAST_JEDI_COMPLETIONS"]
                IN  IF completion_item.label \in DOMAIN last
                    THEN LET completion == last[completion_item.label][1]
                             data == last[completion_item.label][2]
                             resolved == _resolve_completion(
                                             completion, data, preferred_markup_kind)
                         IN  \* the stored dict itself is updated and returned
                             /\ JEDI_SHARED_DATA' =
                                    [k \in {"LAST_JEDI_COMPLETIONS"} |->
                                        [last EXCEPT ![completion_item.label] =
                                            <<resolved, data>>]]
                             /\ ret' = [status |-> "ok", value |-> resolved]
                    ELSE /\ ret' = [status |-> "ok", value |-> completion_item]
                         /\ UNCHANGED JEDI_SHARED_DATA

(***************************************************************************)
(* Requests                                                                *)
(***************************************************************************)
\* "from collections import defaultdict \na=defaultdict"
docSnippets ==
    [uri |-> "file:///a.py",
     source |-> <<"from", "collections", "import", "defaultdict", " ", "\n",
                  "a", "=", "defaultdict">>]

Position(line, character) == [line |-> line, character |-> character]

\* inside the unfinished import ("from collections import"), the end of the
\* import line and the end of the usage line
DocumentPositions ==
    {<<docSnippets, Position(0, 3)>>, <<docSnippets, Position(0, 4)>>,
     <<docSnippets, Position(1, 3)>>}

Flags ==
    [eager : BOOLEAN, include_params : BOOLEAN,
     include_class_objects : BOOLEAN, include_function_objects : BOOLEAN]

\* jedi_config: the flags, with or without a resolve_at_most budget
Configs ==
    Flags \cup {[resolve_at_most |-> n] @@ f : n \in 0..MaxCands, f \in Flags}

plaintext_first == <<"plaintext", "markdown">>

Capabilities ==
    { EmptyDict,
      [completionItem |-> [snippetSupport |-> TRUE]],
      [completionItem |-> [snippetSupport |-> TRUE,
                           documentationFormat |-> plaintext_first]],
      [completionItem |-> [snippetSupport |-> FALSE,
                           documentationFormat |-> plaintext_first]] }

CandidateLists == SeqsUpTo(Candidates, MaxCands)

\* every list request
ListCalls ==
    {ListCall(cfg, caps, dp[1], dp[2], cs) :
        cfg \in Configs, caps \in Capabilities, dp \in DocumentPositions,
        cs \in CandidateLists}

\* the requests of the long-running server
ServerConfigs ==
    {cfg \in Flags : cfg.include_params /\ ~cfg.include_function_objects}

ServerCapabilities == {[completionItem |-> [snippetSupport |-> TRUE]]}

ServerCandidateLists ==
    SeqsUpTo({fooA, fooB, candKeyError, candRaising}, MaxCands)

ResolveCapabilities ==
    {EmptyDict, [completionItem |-> [documentationFormat |-> plaintext_first]]}

\* an item no list call returned
neverListed ==
    [label |-> <<"z">>, kind |-> "Variable", sort_text |-> <<"a", "z">>,
     insert_text |-> <<"z">>, data |-> [doc_uri |-> "file:///b.py"]]

\* items a client may still hold from an older response
StaleItems ==
    {[data |-> [doc_uri |-> "file:///b.py"]]
        @@ _format_completion(c, "markdown", FALSE, FALSE, TRUE) :
        c \in {fooA, candKeyError}}

(***************************************************************************)
(* The backend query: jedi_script and the environment it runs in           *)
(***************************************************************************)
\* no backend query yet
NoScript == [environment |-> [kind |-> "none"]]

\* jedi.api.environment.get_cached_default_environment()
DefaultEnvironment == [kind |-> "default"]

\* the environment jedi creates for the interpreter at path
CreatedEnvironment(path) == [kind |-> "created", path |-> path]

\* _get_environment(workspace, environment_path=None, env_vars=None): the
\* environment and the environment cache after the call; create_environment
\* is called with the keyword en_vars, which it does not have
_get_environment(workspace, environment_path, env_vars) ==
    IF environment_path = None
    THEN [status |-> "ok", environment |-> DefaultEnvironment,
          JEDI_ENVIRONMENTS |-> JEDI_ENVIRONMENTS]
    ELSE IF environment_path \in DOMAIN JEDI_ENVIRONMENTS
    THEN [status |-> "ok", environment |-> JEDI_ENVIRONMENTS[environment_path],
          JEDI_ENVIRONMENTS |-> JEDI_ENVIRONMENTS]
    ELSE [status |-> "raised", error |-> "TypeError",
          JEDI_ENVIRONMENTS |-> JEDI_ENVIRONMENTS]

\* the call jedi_script makes, _get_environment(environment_path,
\* env_vars=env_vars): the configured path is the first positional argument,
\* which is the parameter workspace; environment_path keeps its default None
EnvironmentOfScript(jedi_config) ==
    LET environment_path == Get(jedi_config, "environment", None)
        env_vars == Get(jedi_config, "env_vars", None)
    IN  _get_environment(environment_path, None, env_vars)

\* jedi_script(jedi_config, workspace, document, use_document_path=True), for
\* a call of _get_environment that returned
jedi_script(jedi_config) ==
    /\ JEDI_ENVIRONMENTS' = EnvironmentOfScript(jedi_config).JEDI_ENVIRONMENTS
    /\ script' = [environment |-> EnvironmentOfScript(jedi_config).environment]

(***************************************************************************)
(* The server: any sequence of list and resolve calls                      *)
(***************************************************************************)
\* the requests the server is working on, one per worker
Threads == {"t1", "t2"}

\* a worker with no request
Idle == [pc |-> "idle"]

\* no list call yet
NoList == [called |-> FALSE, completions |-> <<>>, value |-> <<>>]

Init ==
    /\ JEDI_SHARED_DATA = EmptyDict
    /\ call = [op |-> "none"]
    /\ ret = [status |-> "none"]
    /\ lastList = NoList
    /\ prevList = NoList
    /\ inflight = [t \in Threads |-> Idle]
    /\ tableId = 0
    /\ JEDI_ENVIRONMENTS = EmptyDict
    /\ script = NoScript
    /\ LABEL_RESOLVER = Resolver(Unbounded)
    /\ SNIPPET_RESOLVER = Resolver(Unbounded)

List ==
    /\ \E cfg \in ServerConfigs, caps \in ServerCapabilities,
          cs \in ServerCandidateLists :
           jedi_completion(cfg, caps, docSnippets, Position(1, 3), cs)
    /\ UNCHANGED <<prevList, inflight, tableId, resolvers, environments>>

\* a list call during which the backend raises
ListRaises ==
    /\ \E cfg \in ServerConfigs, caps \in ServerCapabilities :
           jedi_completion_backend_raises(cfg, caps, docSnippets, Position(1, 3))
    /\ UNCHANGED <<prevList, inflight, tableId, resolvers, environments>>

\* the client resolves an item of the list it last received
ResolveListed ==
    /\ \E caps \in ResolveCapabilities, k \in 1..Len(lastList.value) :
           jedi_completion_item_resolve(caps, lastList.value[k], k)
    /\ UNCHANGED <<prevList, inflight, tableId, resolvers, environments>>

\* the client resolves an item it did not get from the last list call
ResolveOther ==
    /\ \E caps \in ResolveCapabilities, item \in StaleItems \cup {neverListed} :
           jedi_completion_item_resolve(caps, item, 0)
    /\ UNCHANGED <<prevList, inflight, tableId, resolvers, environments>>

Next == List \/ ListRaises \/ ResolveListed \/ ResolveOther

Spec == Init /\ [][Next]_vars

(***************************************************************************)
(* One list call: every request, handled from the initial state            *)
(***************************************************************************)
InitCall ==
    /\ JEDI_SHARED_DATA = EmptyDict
    /\ call \in ListCalls
    /\ ret = [status |-> "pending"]
    /\ lastList = NoList
    /\ prevList = NoList
    /\ inflight = [t \in Threads |-> Idle]
    /\ tableId = 0
    /\ JEDI_ENVIRONMENTS = EmptyDict
    /\ script = NoScript
    /\ LABEL_RESOLVER = Resolver(Unbounded)
    /\ SNIPPET_RESOLVER = Resolver(Unbounded)

Handle ==
    /\ ret.status = "pending"
    /\ jedi_completion(call.jedi_config, call.completion_capabilities,
                       call.document, call.position, call.completions)
    /\ UNCHANGED <<prevList, inflight, tableId, resolvers, environments>>

NextCall == Handle

SpecCall == InitCall /\ [][NextCall]_vars

(***************************************************************************)
(* The server with two open documents: list calls for either document,     *)
(* resolve calls for the items of the last two lists                       *)
(***************************************************************************)
\* "a=foo", open beside docSnippets
docOther ==
    [uri |-> "file:///b.py", source |-> <<"a", "=", "foo">>]

\* the open documents, each with the cursor at the end of its usage line
OpenDocuments ==
    {<<docSnippets, Position(1, 3)>>, <<docOther, Position(0, 3)>>}

DocsConfigs == {[include_params |-> TRUE]}

DocsCandidateLists == SeqsUpTo({fooA, fooB, candKeyError}, MaxCands)

ListDocument ==
    /\ \E cfg \in DocsConfigs, caps \in ServerCapabilities,
          dp \in OpenDocuments, cs \in DocsCandidateLists :
           jedi_completion(cfg, caps, dp[1], dp[2], cs)
    /\ prevList' = lastList
    /\ UNCHANGED <<inflight, tableId, resolvers, environments>>

\* the client resolves an item of the list before the last
ResolvePrevious ==
    /\ \E caps \in ResolveCapabilities, k \in 1..Len(prevList.value) :
           jedi_completion_item_resolve(caps, prevList.value[k], 0)
    /\ UNCHANGED <<prevList, inflight, tableId, resolvers, environments>>

NextDocs == ListDocument \/ ResolveListed \/ ResolvePrevious

SpecDocs == Init /\ [][NextDocs]_vars

(***************************************************************************)
(* The handlers step by step, several requests in flight.  A worker's     *)
(* record holds the local variables of its call; tableId names the dict    *)
(* object currently stored under "LAST_JEDI_COMPLETIONS": a resolve call   *)
(* holds references to the item of the table it looked up, and its writes  *)
(* reach the stored table only while that table is still the stored one.   *)
(***************************************************************************)
\* at most MaxTables list calls write a table
MaxTables == 3

StepConfigs ==
    {[include_params |-> TRUE, include_class_objects |-> TRUE, eager |-> e] :
        e \in BOOLEAN}

StepCandidateLists == SeqsUpTo({fooA, candKeyError}, MaxCands)

\* the labels a client asks to resolve
StepLabels ==
    {_label(c, TRUE) : c \in {fooA, candKeyError}} \cup {neverListed.label}

\* lines 33-38: the backend is queried; no candidates: return None
StepListStart(t) ==
    /\ inflight[t].pc = "idle"
    /\ tableId < MaxTables
    /\ \E cfg \in StepConfigs, caps \in ServerCapabilities,
          cs \in StepCandidateLists :
           inflight' =
               [inflight EXCEPT ![t] =
                   IF Len(cs) = 0 THEN Idle
                   ELSE [pc |-> "format", jedi_config |-> cfg,
                         completion_capabilities |-> caps,
                         document |-> docSnippets, position |-> Position(1, 3),
                         completions |-> cs, ready_completions |-> <<>>]]
    /\ UNCHANGED <<JEDI_SHARED_DATA, tableId, call, ret, lastList, prevList, resolvers, environments>>

\* the formatted primary item of candidate i of a call in flight (lines 70-76)
StepPrimary(c, i) ==
    _format_completion(
        c.completions[i], PreferredMarkupKind(c.completion_capabilities),
        IF c.completions[i].type \in {"class", "function"}
        THEN /\ SnippetSupport(c.completion_capabilities)
             /\ Get(c.jedi_config, "include_params", FALSE)
             /\ use_snippets(c.document, c.position)
        ELSE FALSE,
        Get(c.jedi_config, "eager", FALSE),
        (i - 1) < Get(c.jedi_config, "resolve_at_most", DEFAULT_RESOLVE_AT_MOST))

\* a formatting step that also registers the item it has just built
StepListFormat_registering(t) ==
    LET c == inflight[t]
    IN  /\ c.pc = "format"
        /\ Len(c.ready_completions) < Len(c.completions)
        /\ \E item \in {StepPrimary(c, Len(c.ready_completions) + 1)} :
               /\ inflight' = [inflight EXCEPT ![t].ready_completions =
                                   Append(c.ready_completions, item)]
               /\ JEDI_SHARED_DATA' =
                      [k \in {"LAST_JEDI_COMPLETIONS"} |->
                          LastJediCompletions(Append(c.ready_completions, item),
                                              c.completions)]
        /\ UNCHANGED <<tableId, call, ret, lastList, prevList, resolvers, environments>>

\* lines 69-78: one more candidate is formatted into the local list
StepListFormat(t) ==
    LET c == inflight[t]
    IN  /\ c.pc = "format"
        /\ Len(c.ready_completions) < Len(c.completions)
        /\ inflight' = [inflight EXCEPT ![t].ready_completions =
                            Append(c.ready_completions,
                                   StepPrimary(c, Len(c.ready_completions) + 1))]
        /\ UNCHANGED <<JEDI_SHARED_DATA, tableId, call, ret, lastList, prevList, resolvers, environments>>

\* formatting a candidate raises (an accessor of the candidate, a resolver),
\* or the request is abandoned: the call ends, its local list is dropped
StepListRaise(t) ==
    /\ inflight[t].pc = "format"
    /\ inflight' = [inflight EXCEPT ![t] = Idle]
    /\ UNCHANGED <<JEDI_SHARED_DATA, tableId, call, ret, lastList, prevList, resolvers, environments>>

\* lines 80-109: the object variants are appended, every item gets its data
StepListData(t) ==
    LET c == inflight[t]
        markup_kind == PreferredMarkupKind(c.completion_capabilities)
        resolve_eagerly == Get(c.jedi_config, "eager", FALSE)
        max_to_resolve ==
            Get(c.jedi_config, "resolve_at_most", DEFAULT_RESOLVE_AT_MOST)
        included(option) ==
            /\ SnippetSupport(c.completion_capabilities)
            /\ Get(c.jedi_config, option, FALSE)
            /\ use_snippets(c.document, c.position)
        all == c.ready_completions
               \o (IF included("include_class_objects")
                   THEN ObjectVariants(c.completions, "class", 1, markup_kind,
                                       resolve_eagerly, max_to_resolve)
                   ELSE <<>>)
               \o (IF included("include_function_objects")
                   THEN ObjectVariants(c.completions, "function", 1, markup_kind,
                                       resolve_eagerly, max_to_resolve)
                   ELSE <<>>)
    IN  /\ c.pc = "format"
        /\ Len(c.ready_completions) = Len(c.completions)
        /\ inflight' =
               [inflight EXCEPT ![t] =
                   [c EXCEPT !.pc = "write",
                             !.ready_completions =
                                 [i \in 1..Len(all) |->
                                     [data |-> [doc_uri |-> c.document.uri]]
                                         @@ all[i]]]]
        /\ UNCHANGED <<JEDI_SHARED_DATA, tableId, call, ret, lastList, prevList, resolvers, environments>>

\* lines 111-116: the new dict is stored in one assignment, the list returned
StepListWrite(t) ==
    LET c == inflight[t]
    IN  /\ c.pc = "write"
        /\ JEDI_SHARED_DATA' =
               [k \in {"LAST_JEDI_COMPLETIONS"} |->
                   LastJediCompletions(c.ready_completions, c.completions)]
        /\ tableId' = tableId + 1
        /\ inflight' = [inflight EXCEPT ![t] = Idle]
        /\ UNCHANGED <<call, ret, lastList, prevList, resolvers, environments>>

\* lines 127-133: the lookup; a missing key raises, an absent label returns
\* the input item, a present one leaves the call holding the stored pair
StepResolveLookup(t) ==
    /\ inflight[t].pc = "idle"
    /\ \E caps \in ResolveCapabilities, label \in StepLabels :
           inflight' =
               [inflight EXCEPT ![t] =
                   IF "LAST_JEDI_COMPLETIONS" \notin DOMAIN JEDI_SHARED_DATA
                   THEN Idle
                   ELSE IF label \notin
                               DOMAIN JEDI_SHARED_DATA["LAST_JEDI_COMPLETIONS"]
                   THEN Idle
                   ELSE [pc |-> "detail", label |-> label,
                         markup_kind |-> PreferredMarkupKind(caps),
                         table |-> tableId,
                         data |-> JEDI_SHARED_DATA["LAST_JEDI_COMPLETIONS"]
                                      [label][2]]]
    /\ UNCHANGED <<JEDI_SHARED_DATA, tableId, call, ret, lastList, prevList, resolvers, environments>>

\* the stored table after item[key] = value on the item the call holds: the
\* write is seen in the table only if the table looked up is still stored
StoreInHeldItem(c, key, value) ==
    IF c.table # tableId THEN JEDI_SHARED_DATA
    ELSE LET last == JEDI_SHARED_DATA["LAST_JEDI_COMPLETIONS"]
         IN  [k \in {"LAST_JEDI_COMPLETIONS"} |->
                 [last EXCEPT ![c.label] =
                     <<[k2 \in {key} |-> value] @@ last[c.label][1],
                       last[c.label][2]>>]]

\* line 296: completion["detail"] = _detail(d)
StepResolveDetail(t) ==
    LET c == inflight[t]
    IN  /\ c.pc = "detail"
        /\ JEDI_SHARED_DATA' = StoreInHeldItem(c, "detail", _detail(c.data))
        /\ inflight' = [inflight EXCEPT ![t].pc = "documentation"]
        /\ UNCHANGED <<tableId, call, ret, lastList, prevList, resolvers, environments>>

\* lines 297-306: completion["documentation"] = docs, the item is returned
StepResolveDocumentation(t) ==
    LET c == inflight[t]
    IN  /\ c.pc = "documentation"
        /\ JEDI_SHARED_DATA' =
               StoreInHeldItem(c, "documentation",
                               Documentation(c.data, c.markup_kind))
        /\ inflight' = [inflight EXCEPT ![t] = Idle]
        /\ UNCHANGED <<tableId, call, ret, lastList, prevList, resolvers, environments>>

NextSteps ==
    \E t \in Threads :
        \/ StepListStart(t)
        \/ StepListFormat(t)
        \/ StepListRaise(t)
        \/ StepListData(t)
        \/ StepListWrite(t)
        \/ StepResolveLookup(t)
        \/ StepResolveDetail(t)
        \/ StepResolveDocumentation(t)

SpecSteps == Init /\ [][NextSteps]_vars

(***************************************************************************)
(* The resolvers' caches: the calls of get_or_create that formatting one   *)
(* candidate makes, for resolvers built with or without a bound on the     *)
(* number of cached scopes                                                 *)
(***************************************************************************)
\* the largest bound on the cached scopes that is tried
MaxScopes == 2

CacheLimits == {Unbounded} \cup {AtMost(n) : n \in 1..MaxScopes}

CacheCandidates == {fooA, fooB, candRaising, candKeyError, candValueError}

InitCache ==
    /\ JEDI_SHARED_DATA = EmptyDict
    /\ call = [op |-> "none"]
    /\ ret = [status |-> "none"]
    /\ lastList = NoList
    /\ prevList = NoList
    /\ inflight = [t \in Threads |-> Idle]
    /\ tableId = 0
    /\ JEDI_ENVIRONMENTS = EmptyDict
    /\ script = NoScript
    /\ \E limit \in CacheLimits :
           /\ LABEL_RESOLVER = Resolver(limit)
           /\ SNIPPET_RESOLVER = Resolver(limit)

\* _format_completion on one candidate: _label asks the label resolver when
\* resolve_label_or_snippet is set (lines 272, 346-348), _snippet the snippet
\* resolver when moreover include_params is set and the name is no exception
\* class (lines 287-289, 355-357)
FormatCached ==
    /\ \E d \in CacheCandidates, include_params \in BOOLEAN,
          resolve_label_or_snippet \in BOOLEAN :
           /\ LABEL_RESOLVER' =
                  IF resolve_label_or_snippet
                  THEN Resolver_get_or_create(LABEL_RESOLVER, d)
                  ELSE LABEL_RESOLVER
           /\ SNIPPET_RESOLVER' =
                  IF /\ include_params /\ ~is_exception_class(d.name)
                     /\ resolve_label_or_snippet
                  THEN Resolver_get_or_create(SNIPPET_RESOLVER, d)
                  ELSE SNIPPET_RESOLVER
    /\ UNCHANGED <<JEDI_SHARED_DATA, call, ret, lastList, prevList, inflight,
                   tableId, environments>>

NextCache == FormatCached

SpecCache == InitCache /\ [][NextCache]_vars

(***************************************************************************)
(* One list call at every cursor position of documents with an import      *)
(* split over lines and of documents with several statements on a line     *)
(***************************************************************************)
\* "from datetime import(\n date,\n datetime)\na=date"
docMultilineImport ==
    [uri |-> "file:///a.py",
     source |-> <<"from", "datetime", "import", "(", "\n",
                  " ", "date", ",", "\n",
                  " ", "datetime", ")", "\n",
                  "a", "=", "date">>]

\* "from datetime import\\\n date,\\\n datetime \na=date"
docMultilineBackslash ==
    [uri |-> "file:///a.py",
     source |-> <<"from", "datetime", "import", "\\", "\n",
                  " ", "date", ",", "\\", "\n",
                  " ", "datetime", " ", "\n",
                  "a", "=", "date">>]

\* "a = 1; from datetime import date"
docStatementThenImport ==
    [uri |-> "file:///a.py",
     source |-> <<"a", "=", "1", ";", " ", "from", "datetime", "import", "date">>]

\* "from math import fmod; a = fmod"
docImportThenStatement ==
    [uri |-> "file:///a.py",
     source |-> <<"from", "math", "import", "fmod", ";", " ", "a", "=", "fmod">>]

\* "import os; important(a)"
docImportThenCall ==
    [uri |-> "file:///a.py",
     source |-> <<"import", "os", ";", " ", "important", "(", "a", ")">>]

MultilineDocuments == {docMultilineImport, docMultilineBackslash}

StatementDocuments ==
    {docStatementThenImport, docImportThenStatement, docImportThenCall}

\* the lines of a document (str.splitlines without the ends)
LinesOf(document) == Split(document.source, "\n", Len(document.source))

\* every cursor position of a document
PositionsOf(document) ==
    {p \in {Position(line, character) :
                line \in 0..(Len(LinesOf(document)) - 1),
                character \in 0..Len(document.source)} :
        p.character <= Len(LinesOf(document)[p.line + 1])}

SnippetConfigs == {[include_params |-> TRUE]}

SnippetCapabilities == {[completionItem |-> [snippetSupport |-> TRUE]]}

SnippetCandidateLists ==
    SeqsUpTo({fooA, candKeyError, candEveryone, candOptional}, MaxCands)

SnippetCalls ==
    UNION {{ListCall(cfg, caps, document, position, cs) :
                cfg \in SnippetConfigs, caps \in SnippetCapabilities,
                position \in PositionsOf(document),
                cs \in SnippetCandidateLists} :
           document \in MultilineDocuments \cup StatementDocuments}

InitSnippet ==
    /\ JEDI_SHARED_DATA = EmptyDict
    /\ call \in SnippetCalls
    /\ ret = [status |-> "pending"]
    /\ lastList = NoList
    /\ prevList = NoList
    /\ inflight = [t \in Threads |-> Idle]
    /\ tableId = 0
    /\ JEDI_ENVIRONMENTS = EmptyDict
    /\ script = NoScript
    /\ LABEL_RESOLVER = Resolver(Unbounded)
    /\ SNIPPET_RESOLVER = Resolver(Unbounded)

NextSnippet == Handle

SpecSnippet == InitSnippet /\ [][NextSnippet]_vars

(***************************************************************************)
(* Markup negotiation: list and resolve calls of clients with every        *)
(* documentationFormat list                                                *)
(***************************************************************************)
\* the longest documentationFormat list that is tried
MaxKinds == 3

\* the kinds a client may name, two of them unknown to the server
ClientMarkupKinds == {"markdown", "plaintext", "rst", "html"}

\* clients with every documentationFormat list, and clients with none
MarkupCapabilities ==
    {EmptyDict, [completionItem |-> [snippetSupport |-> TRUE]]}
    \cup {[completionItem |-> [documentationFormat |-> kinds]] :
             kinds \in SeqsUpTo(ClientMarkupKinds, MaxKinds)}

MarkupConfigs == {[eager |-> eager] : eager \in BOOLEAN}

\* a function with a docstring of unknown format, alone and after one with a
\* docstring the converter knows
MarkupCandidateLists == {<<fooA>>, <<fooB, fooA>>}

ListMarkup ==
    /\ \E cfg \in MarkupConfigs, caps \in MarkupCapabilities,
          cs \in MarkupCandidateLists :
           jedi_completion(cfg, caps, docSnippets, Position(1, 3), cs)
    /\ UNCHANGED <<prevList, inflight, tableId, resolvers, environments>>

ResolveMarkup ==
    /\ \E caps \in MarkupCapabilities, k \in 1..Len(lastList.value) :
           jedi_completion_item_resolve(caps, lastList.value[k], k)
    /\ UNCHANGED <<prevList, inflight, tableId, resolvers, environments>>

NextMarkup == ListMarkup \/ ResolveMarkup

SpecMarkup == Init /\ [][NextMarkup]_vars

(***************************************************************************)
(* Sort keys: one list call for every pair of names                        *)
(***************************************************************************)
\* the longest candidate name that is tried
MaxNameLen == 2

\* characters of names: an upper-case letter sorts before "_", "_" before
\* the lower-case letters
NameChars == {"B", "_", "a", "z"}

RECURSIVE NamesUpTo(_)
NamesUpTo(n) ==
    IF n = 1 THEN {<<c>> : c \in NameChars}
    ELSE LET shorter == NamesUpTo(n - 1)
         IN  shorter \cup {Append(s, c) : s \in shorter, c \in NameChars}

\* a variable of the given name
Named(n) ==
    [name |-> n, type |-> "statement", sigs |-> <<>>,
     doc |-> [text |-> "", known_format |-> FALSE],
     full_name |-> "m1.x", parent |-> "m1", raises |-> FALSE]

\* ord(c)
Ord(c) ==
    CASE c = "B" -> 66
      [] c = "_" -> 95
      [] c = "a" -> 97
      [] c = "z" -> 122

\* s < t for str: the first differing character decides, a proper prefix is
\* smaller
RECURSIVE StrLess(_, _)
StrLess(s, t) ==
    IF Len(t) = 0 THEN FALSE
    ELSE IF Len(s) = 0 THEN TRUE
    ELSE IF Head(s) = Head(t) THEN StrLess(Tail(s), Tail(t))
    ELSE Ord(Head(s)) < Ord(Head(t))

SortCalls ==
    {ListCall(EmptyDict, EmptyDict, docSnippets, Position(1, 3),
              <<Named(n1), Named(n2)>>) :
        n1 \in NamesUpTo(MaxNameLen), n2 \in NamesUpTo(MaxNameLen)}

InitSort ==
    /\ JEDI_SHARED_DATA = EmptyDict
    /\ call \in SortCalls
    /\ ret = [status |-> "pending"]
    /\ lastList = NoList
    /\ prevList = NoList
    /\ inflight = [t \in Threads |-> Idle]
    /\ tableId = 0
    /\ JEDI_ENVIRONMENTS = EmptyDict
    /\ script = NoScript
    /\ LABEL_RESOLVER = Resolver(Unbounded)
    /\ SNIPPET_RESOLVER = Resolver(Unbounded)

NextSort == Handle

SpecSort == InitSort /\ [][NextSort]_vars

(***************************************************************************)
(* Kind tags: one list call for every list of candidates of different tags *)
(***************************************************************************)
\* the tags of _TYPE_MAP and two tags it does not hold
KindTags ==
    {"module", "namespace", "class", "instance", "function", "param", "path",
     "keyword", "property", "statement", "generic", ""}

\* a candidate x of the given kind tag
Tagged(type) ==
    [name |-> <<"x">>, type |-> type, sigs |-> <<>>,
     doc |-> [text |-> "", known_format |-> FALSE],
     full_name |-> "m1.x", parent |-> "m1", raises |-> FALSE]

KindCalls ==
    {ListCall(cfg, caps, docSnippets, Position(1, 3), cs) :
        cfg \in {EmptyDict, [include_params |-> TRUE, eager |-> TRUE]},
        caps \in {EmptyDict, [completionItem |-> [snippetSupport |-> TRUE]]},
        cs \in SeqsUpTo({Tagged(type) : type \in KindTags}, MaxCands)}

InitKinds ==
    /\ JEDI_SHARED_DATA = EmptyDict
    /\ call \in KindCalls
    /\ ret = [status |-> "pending"]
    /\ lastList = NoList
    /\ prevList = NoList
    /\ inflight = [t \in Threads |-> Idle]
    /\ tableId = 0
    /\ JEDI_ENVIRONMENTS = EmptyDict
    /\ script = NoScript
    /\ LABEL_RESOLVER = Resolver(Unbounded)
    /\ SNIPPET_RESOLVER = Resolver(Unbounded)

NextKinds == Handle

SpecKinds == InitKinds /\ [][NextKinds]_vars

(***************************************************************************)
(* The environment of the backend query: list calls with and without a     *)
(* configured environment path                                             *)
(***************************************************************************)
pyenv == "/tmp/pyenv/bin/python"

\* jedi_config with no environment, with None, and with the path of an
\* interpreter
EnvironmentConfigs ==
    {EmptyDict, [eager |-> TRUE], [environment |-> None],
     [environment |-> pyenv], [environment |-> pyenv, eager |-> TRUE],
     [environment |-> "/opt/venv/bin/python"]}

EnvironmentCapabilities ==
    {EmptyDict, [completionItem |-> [documentationFormat |-> <<"plaintext">>]]}

EnvironmentCandidateLists == SeqsUpTo({fooA, fooB, candKeyError}, MaxCands)

\* a list call with its backend query
ListEnvironment ==
    /\ \E cfg \in EnvironmentConfigs, caps \in EnvironmentCapabilities,
          cs \in EnvironmentCandidateLists :
           IF EnvironmentOfScript(cfg).status = "ok"
           THEN /\ jedi_script(cfg)
                /\ jedi_completion(cfg, caps, docSnippets, Position(1, 3), cs)
           ELSE /\ call' = ListCall(cfg, caps, docSnippets, Position(1, 3), <<>>)
                /\ ret' = [status |-> "raised",
                           error |-> EnvironmentOfScript(cfg).error]
                /\ UNCHANGED <<JEDI_SHARED_DATA, lastList, environments>>
    /\ UNCHANGED <<prevList, inflight, tableId, resolvers>>

NextEnvironment == ListEnvironment \/ ResolveListed

SpecEnvironment == Init /\ [][NextEnvironment]_vars

(***************************************************************************)
(* Properties                                                              *)
(***************************************************************************)
\* the Session Completion Table: empty while nothing was ever written
Table == Get(JEDI_SHARED_DATA, "LAST_JEDI_COMPLETIONS", EmptyDict)

ListReturned == call.op = "list" /\ ret.status = "ok"

ResolveReturned == call.op = "resolve" /\ ret.status = "ok"

\* the number of primary items of the returned list
Primaries == Len(call.completions)

HasDocs(item) == "documentation" \in DOMAIN item /\ "detail" \in DOMAIN item

NoDocs(item) == "documentation" \notin DOMAIN item /\ "detail" \notin DOMAIN item

\* snippet text holds a placeholder or cursor marker
IsSnippet(item) ==
    "insert_text_format" \in DOMAIN item \/ Contains(item.insert_text, "$")

MaxToResolve(cfg) == Get(cfg, "resolve_at_most", DEFAULT_RESOLVE_AT_MOST)

\* C1: every entry of the table was produced by the most recent list call that
\* returned, with a list or with no result: no entry of an earlier list call
\* survives a list call.
C1_OnlyMostRecentListCall ==
    lastList.called =>
        \A label \in DOMAIN Table :
            \E k \in 1..Len(lastList.value) :
                /\ lastList.value[k].label = label
                /\ k <= Len(lastList.completions)
                /\ Table[label][2] = lastList.completions[k]

\* C2: a resolve call for a label that is not in the table, also before any
\* list call, returns the input item unchanged.
C2_AbsentLabelReturnsInput ==
    (call.op = "resolve" /\ call.completion_item.label \notin DOMAIN Table)
        => (ret.status = "ok" /\ ret.value = call.completion_item)

\* C3: every item of a returned list, object variants included, is registered
\* in the table under its label.
C3_EveryItemRegistered ==
    ListReturned =>
        \A k \in 1..Len(ret.value) : ret.value[k].label \in DOMAIN Table

C5_ResolvedEqualsEager ==
    (/\ ResolveReturned
     /\ call.index \in 1..Len(lastList.completions)
     /\ NoDocs(call.completion_item))
        => LET eager == _format_completion(
                            lastList.completions[call.index],
                            PreferredMarkupKind(call.completion_capabilities),
                            FALSE, TRUE, FALSE)
           IN  /\ HasDocs(ret.value)
               /\ ret.value.documentation = eager.documentation
               /\ ret.value.detail = eager.detail

\* C6: the labels of a returned list are pairwise distinct.
C6_LabelsDistinct ==
    ListReturned =>
        \A i, j \in 1..Len(ret.value) :
            i # j => ret.value[i].label # ret.value[j].label

\* the last primary item of the last list call that has the label
LastWithLabel(label) ==
    CHOOSE j \in 1..Len(lastList.completions) :
        /\ lastList.value[j].label = label
        /\ \A m \in 1..Len(lastList.completions) :
              lastList.value[m].label = label => m <= j

\* two candidates of the last list call were formatted to the label
Duplicated(label) ==
    \E i, j \in 1..Len(lastList.completions) :
        i # j /\ lastList.value[i].label = label /\ lastList.value[j].label = label

\* C7: when two candidates of a list call format to one label, the table entry
\* of the label is the item and candidate of the later one, and a following
\* resolve call for the label answers from that later candidate.
C7_LaterDuplicateWins ==
    \A label \in DOMAIN Table :
        (Len(lastList.value) > 0 /\ Duplicated(label)) =>
            LET j == LastWithLabel(label)
            IN  /\ Table[label][2] = lastList.completions[j]
                /\ ListReturned => Table[label][1] = lastList.value[j]
                /\ (call.op = "resolve" /\ call.completion_item.label = label) =>
                       /\ ret.status = "ok"
                       /\ ret.value =
                              _resolve_completion(
                                  lastList.value[j], lastList.completions[j],
                                  PreferredMarkupKind(call.completion_capabilities))

\* the first of two foo items was resolved and got the second one's detail
C7_Witness ==
    /\ lastList.completions = <<fooA, fooB>>
    /\ ResolveReturned
    /\ call.index = 1
    /\ ret.value.detail = "m2"
    /\ Table[call.completion_item.label][2] = fooB

\* what the heuristic takes for an import: an import statement, or a malformed
\* fragment that holds "import"
ClassifiedAsImport(document, position) ==
    LET code == SnippetCode(document, position)
        expr_type == ParsoFirstChildType(code)
    IN  \/ expr_type \in _IMPORTS
        \/ expr_type \in _ERRORS /\ HasImportSubstring(code)

\* C8: a list call whose cursor statement is classified as an import returns
\* no item with snippet insert text or a snippet format marker.
C8_NoSnippetInImport ==
    (ListReturned /\ ClassifiedAsImport(call.document, call.position)) =>
        \A k \in 1..Len(ret.value) : ~IsSnippet(ret.value[k])

\* a function was offered inside an import, snippets wanted and supported
C8_Witness ==
    /\ ListReturned
    /\ ClassifiedAsImport(call.document, call.position)
    /\ SnippetSupport(call.completion_capabilities)
    /\ call.jedi_config.include_params
    /\ MaxToResolve(call.jedi_config) > 0
    /\ call.completions[1] = fooA
    /\ ret.value[1].insert_text = foo

\* the names of exception types among the candidates' names
ExceptionTypeNames == {KeyError, ValueError, LookupError}

\* C9: an item carries a parameter snippet only if the client supports
\* snippets, the configuration asks for them, the cursor statement is eligible,
\* the candidate is a class or function and its name is not an exception type.
C9_SnippetOnlyIf ==
    ListReturned =>
        /\ \A k \in 1..Primaries :
              IsSnippet(ret.value[k]) =>
                  /\ SnippetSupport(call.completion_capabilities)
                  /\ call.jedi_config.include_params
                  /\ ~ClassifiedAsImport(call.document, call.position)
                  /\ call.completions[k].type \in {"class", "function"}
                  /\ call.completions[k].name \notin ExceptionTypeNames
        /\ \A k \in (Primaries + 1)..Len(ret.value) : ~IsSnippet(ret.value[k])

\* C10 as stated: the item of a candidate at or above the budget has the bare
\* name as label and the plain name as insert text, with no format marker.
C10_AtBudgetPlainName ==
    ListReturned =>
        \A k \in 1..Primaries :
            (k - 1) >= MaxToResolve(call.jedi_config) =>
                /\ ret.value[k].label = call.completions[k].name
                /\ ret.value[k].insert_text = call.completions[k].name
                /\ "insert_text_format" \notin DOMAIN ret.value[k]

\* C10 amended: the item of a candidate at or above the budget has the bare
\* name as label, no format marker, and as insert text the plain name, or for
\* a path candidate the normalised name with its slashes escaped.
C10_AtBudgetNoSignatureNoSnippet ==
    ListReturned =>
        \A k \in 1..Primaries :
            (k - 1) >= MaxToResolve(call.jedi_config) =>
                /\ ret.value[k].label = call.completions[k].name
                /\ ret.value[k].insert_text =
                       IF call.completions[k].type = "path"
                       THEN EscapedPath(call.completions[k].name)
                       ELSE call.completions[k].name
                /\ ~IsSnippet(ret.value[k])

\* with budget 1 and snippets on, the first function got signature and
\* snippet and the second only its name
C10_Witness ==
    /\ ListReturned
    /\ MaxToResolve(call.jedi_config) = 1
    /\ call.completions = <<fooA, fooB>>
    /\ IsSnippet(ret.value[1])
    /\ ret.value[1].label # foo
    /\ ret.value[2].label = foo
    /\ ret.value[2].insert_text = foo

\* the 1-based indexes of the candidates of one type, in backend order
SourcesOfType(type) ==
    SelectIdx([k \in 1..Primaries |-> k],
              {k \in 1..Primaries : call.completions[k].type = type}, 1)

\* object variants are appended when the configuration asks for them, the
\* client supports snippets and the cursor statement is snippet-eligible
VariantsIncluded(option) ==
    /\ Get(call.jedi_config, option, FALSE)
    /\ SnippetSupport(call.completion_capabilities)
    /\ ~ClassifiedAsImport(call.document, call.position)

\* the candidates the appended items come from, in the order of the items
VariantSources ==
    (IF VariantsIncluded("include_class_objects")
     THEN SourcesOfType("class") ELSE <<>>)
    \o (IF VariantsIncluded("include_function_objects")
        THEN SourcesOfType("function") ELSE <<>>)

\* item j is the object variant of the candidate at index k
IsVariantOf(j, k) ==
    /\ ret.value[j].label = ret.value[k].label \o object_suffix
    /\ ret.value[j].kind = "TypeParameter"
    /\ ~IsSnippet(ret.value[j])

\* C11 as stated: with class-object variants configured, every class candidate
\* has an appended item labelled as its primary item plus " object", of the
\* type-parameter kind and without snippet; the same for functions.
C11_VariantsWheneverConfigured ==
    ListReturned =>
        \A k \in 1..Primaries :
            (\/ /\ call.jedi_config.include_class_objects
                /\ call.completions[k].type = "class"
             \/ /\ call.jedi_config.include_function_objects
                /\ call.completions[k].type = "function")
                => \E j \in (Primaries + 1)..Len(ret.value) : IsVariantOf(j, k)

\* C11 amended: the variants of a type are appended exactly when they are
\* configured, the client supports snippets and the cursor statement is
\* snippet-eligible: then every candidate of the type has its variant, and
\* the appended items are as many as those candidates.
C11_VariantsWhenConfiguredAndEligible ==
    ListReturned =>
        /\ Len(ret.value) = Primaries + Len(VariantSources)
        /\ \A n \in 1..Len(VariantSources) :
              \E j \in (Primaries + 1)..Len(ret.value) :
                  IsVariantOf(j, VariantSources[n])

\* the function foo, listed with snippets on, got a snippet as primary item
\* and a snippet-free "foo(a, b) object" variant
C11_Witness ==
    /\ ListReturned
    /\ call.completions = <<fooA>>
    /\ call.jedi_config.include_function_objects
    /\ Len(ret.value) = 2
    /\ IsSnippet(ret.value[1])
    /\ IsVariantOf(2, 1)

\* C12: the returned list is the primary items in backend order, then the
\* class variants in the backend order of their classes, then the function
\* variants in the backend order of their functions.
C12_PrimariesThenVariantsInOrder ==
    ListReturned =>
        /\ Len(ret.value) = Primaries + Len(VariantSources)
        /\ \A k \in 1..Primaries :
              /\ ret.value[k].kind = TYPE_MAP(call.completions[k].type)
              /\ ret.value[k].sort_text = _sort_text(call.completions[k])
        /\ \A n \in 1..Len(VariantSources) :
              /\ IsVariantOf(Primaries + n, VariantSources[n])
              /\ ret.value[Primaries + n].sort_text =
                     _sort_text(call.completions[VariantSources[n]])

\* a function listed before a class: the class variant comes third, the
\* function variant last
C12_Witness ==
    /\ ListReturned
    /\ call.completions = <<fooA, candKeyError>>
    /\ Len(ret.value) = 4
    /\ ret.value[3].sort_text = _sort_text(candKeyError)
    /\ ret.value[4].sort_text = _sort_text(fooA)
    /\ ret.value[3].kind = "TypeParameter"

\* C13: a list call in which the backend raises returns no list, and leaves
\* the table exactly as it was before the call.
C13_BackendFailureLeavesTable ==
    [][(call'.op = "list" /\ ret'.status = "raised")
           => /\ JEDI_SHARED_DATA' = JEDI_SHARED_DATA
              /\ "value" \notin DOMAIN ret']_vars

\* the backend raised in a list call while the table held the entries of an
\* earlier list call, and these entries are still there
C13_Witness ==
    /\ call.op = "list"
    /\ ret.status = "raised"
    /\ lastList.completions = <<fooA>>
    /\ DOMAIN Table = {lastList.value[1].label}

\* C14: when the docstring accessor of a candidate raises, a resolve call for
\* its item and an eager list call that formats it still complete, and the
\* item's documentation is the empty string.
C14_DocumentationFailureGivesEmpty ==
    /\ (/\ call.op = "resolve"
        /\ call.index \in 1..Len(lastList.completions)
        /\ lastList.completions[call.index].raises)
           => /\ ret.status = "ok"
              /\ "detail" \in DOMAIN ret.value
              /\ ret.value.documentation = [kind |-> "str", value |-> ""]
    /\ (call.op = "list" /\ Len(call.completions) > 0)
           => /\ ret.status = "ok"
              /\ \A k \in 1..Primaries :
                    (call.jedi_config.eager /\ call.completions[k].raises)
                        => ret.value[k].documentation =
                               [kind |-> "str", value |-> ""]

\* the item of the raising function was resolved: detail set, empty documentation
C14_Witness ==
    /\ ResolveReturned
    /\ call.index = 1
    /\ lastList.completions[1] = candRaising
    /\ NoDocs(call.completion_item)
    /\ ret.value.detail = "m1"
    /\ ret.value.documentation.value = ""

\* list(A) then list(B) for another document, both with a list returned
ListedForTwoDocuments ==
    /\ Len(prevList.value) > 0
    /\ Len(lastList.value) > 0
    /\ prevList.value[1].data.doc_uri # lastList.value[1].data.doc_uri

\* C15: after list(A) and list(B) for different documents, a resolve call for
\* an item returned for A is answered from the table B wrote: with B's
\* candidate and B's document identity when B emitted the label, and with the
\* input item unresolved when B did not.
C15_LastWriterWins ==
    (/\ call.op = "resolve"
     /\ ListedForTwoDocuments
     /\ \E k \in 1..Len(prevList.value) : call.completion_item = prevList.value[k])
        => /\ ret.status = "ok"
           /\ IF \E j \in 1..Len(lastList.completions) :
                     lastList.value[j].label = call.completion_item.label
              THEN LET j == LastWithLabel(call.completion_item.label)
                   IN  /\ ret.value.data = lastList.value[j].data
                       /\ ret.value.data # call.completion_item.data
                       /\ ret.value.detail = _detail(lastList.completions[j])
              ELSE ret.value = call.completion_item

\* foo of module m1 was listed for a.py, foo of module m2 for b.py, and the
\* item of a.py was resolved with the detail of m2 and the identity of b.py
C15_Witness ==
    /\ call.op = "resolve"
    /\ prevList.completions = <<fooA>>
    /\ lastList.completions = <<fooB>>
    /\ call.completion_item = prevList.value[1]
    /\ call.completion_item.data.doc_uri = "file:///a.py"
    /\ ret.value.data.doc_uri = "file:///b.py"
    /\ ret.value.detail = "m2"

\* a stored item without the fields a resolve call adds
Unresolved(item) ==
    [k \in DOMAIN item \ {"detail", "documentation"} |-> item[k]]

\* a table without the fields resolve calls added to its items
UnresolvedTable(table) ==
    [label \in DOMAIN table |-> <<Unresolved(table[label][1]), table[label][2]>>]

\* the table a list call writes when it runs to its end
CompleteTableOf(c) ==
    LastJediCompletions(
        ReadyCompletions(c.jedi_config, c.completion_capabilities, c.document,
                         c.position, c.completions),
        c.completions)

\* every stored item has its label, kind, sort key, insert text and data
StoredItemsComplete ==
    \A label \in DOMAIN Table :
        /\ {"label", "kind", "sort_text", "insert_text", "data"}
               \subseteq DOMAIN Table[label][1]
        /\ Table[label][1].label = label

\* a step keeps the table of the earlier list call, at most with detail or
\* documentation added to an item, or stores the whole table of a list call
\* that has formatted all its candidates
TableStaysOrIsReplacedWhole ==
    \/ UnresolvedTable(Table') = UnresolvedTable(Table)
    \/ \E t \in Threads :
          /\ inflight[t].pc = "write"
          /\ Table' = CompleteTableOf(inflight[t])

\* C16: in every state, also between the steps of concurrent calls and after
\* a list call raised or was abandoned while formatting, every stored item is
\* fully formatted, and the table is the table of an earlier list call or the
\* whole table of the new one.
C16_NoHalfPopulatedItem ==
    /\ []StoredItemsComplete
    /\ [][TableStaysOrIsReplacedWhole]_vars

\* a list call has formatted one of its two candidates while a resolve call
\* is between its two stores into an item of the stored table
C16_Witness ==
    \E t, u \in Threads :
        /\ inflight[t].pc = "format"
        /\ Len(inflight[t].ready_completions) = 1
        /\ Len(inflight[t].completions) = 2
        /\ inflight[u].pc = "documentation"
        /\ inflight[u].table = tableId
        /\ "detail" \in DOMAIN Table[inflight[u].label][1]
        /\ "documentation" \notin DOMAIN Table[inflight[u].label][1]

\* the names a cache holds for a scope
CachedNames(resolver, scope) ==
    LET i == ScopeIndex(resolver.scopes, scope, 1)
    IN  IF i = 0 THEN {} ELSE resolver.scopes[i].names

CacheScopes == {d.parent : d \in CacheCandidates}

\* one step of a cache: no scope loses a part of its names; a scope loses
\* all of them only if the cache is bounded, is full, the scope is the least
\* recently populated one, and another scope is populated in the step
EvictsWholeOldestScopeOnly(before, after) ==
    \A scope \in CacheScopes :
        LET old == CachedNames(before, scope)
            new == CachedNames(after, scope)
        IN  \/ old \subseteq new
            \/ /\ new = {}
               /\ before.limit.bounded
               /\ Len(before.scopes) = before.limit.max
               /\ before.scopes[1].scope = scope
               /\ Len(after.scopes) = before.limit.max
               /\ scope \in after.evicted

UsageLine(document) == Len(LinesOf(document)) - 1

\* the first item of the list is a function's and carries its snippet
FunctionGotSnippet ==
    /\ Len(ret.value) >= 1
    /\ call.completions[1] = fooA
    /\ IsSnippet(ret.value[1])

\* C18: with an import split over several lines (parenthesized or joined with
\* backslashes) followed by a usage line, a list call with the cursor on a
\* line of the import is not snippet-eligible and one with the cursor on the
\* usage line is.
C18_ImportLinesNotEligible ==
    (/\ ListReturned
     /\ call.document \in MultilineDocuments
     /\ call.completions[1] = fooA) =>
        (FunctionGotSnippet <=> call.position.line = UsageLine(call.document))

\* the text before the cursor on the cursor's line
TextBeforeCursor(document, position) ==
    Prefix(LinesOf(document)[position.line + 1], position.character)

\* the last of the statements separated by ";"
LastStatement(text) == Strip(RSplitLast(text, ";"))

\* a statement that begins with one of the import keywords
IsImportStatement(stmt) == Len(stmt) > 0 /\ stmt[1] \in {"import", "from"}

\* C19: when the text before the cursor holds several statements separated by
\* ";", the last statement alone decides: an import after a non-import is not
\* eligible, a non-import after an import is eligible.
C19_LastStatementDecides ==
    (/\ ListReturned
     /\ call.document \in StatementDocuments
     /\ call.completions[1] = fooA
     /\ Contains(TextBeforeCursor(call.document, call.position), ";")
     /\ LastStatement(TextBeforeCursor(call.document, call.position)) # <<>>) =>
        (FunctionGotSnippet <=>
            ~IsImportStatement(
                LastStatement(TextBeforeCursor(call.document, call.position))))

\* the required positional parameters of a candidate's signature: the indices
\* of the parameters without default that are not *args or **kwargs, in order
RequiredPositions(d) ==
    LET ps == d.sigs[1].params
        HasDefault(p) == IF "has_default" \in DOMAIN p THEN p.has_default
                         ELSE ~p.required
        Star(p) == "star" \in DOMAIN p /\ p.star
    IN  {i \in 1..Len(ps) : ~HasDefault(ps[i]) /\ ~Star(ps[i])}

\* the j-th smallest element of a set of numbers
RECURSIVE Nth(_, _)
Nth(S, j) ==
    LET least == CHOOSE x \in S : \A y \in S : x <= y
    IN  IF j = 1 THEN least ELSE Nth(S \ {least}, j - 1)

\* text is name(${1:p1}, ..., ${k:pk})$0 for the k required parameters of d
IsPlaceholderSnippet(text, d) ==
    LET ps == d.sigs[1].params
        req == RequiredPositions(d)
        k == Cardinality(req)
        piece(j) == (IF j = 1 THEN <<>> ELSE <<",", " ">>)
                    \o <<"$", "{", Digits[j], ":">> \o ps[Nth(req, j)].name
                    \o <<"}">>
        \* where the j-th placeholder starts: after the name, "(" and the
        \* placeholders before it
        start[j \in 1..(k + 1)] ==
            IF j = 1 THEN Len(d.name) + 2 ELSE start[j - 1] + Len(piece(j - 1))
    IN  /\ Len(text) = start[k + 1] + 2
        /\ SubSeq(text, 1, Len(d.name) + 1) = d.name \o <<"(">>
        /\ \A j \in 1..k :
              SubSeq(text, start[j], start[j + 1] - 1) = piece(j)
        /\ SubSeq(text, start[k + 1], Len(text)) = <<")", "$", "0">>

\* C20: a snippet has one placeholder per required positional parameter,
\* numbered 1..k in declaration order and followed by the final cursor marker;
\* defaulted and *args/**kwargs parameters are no placeholders; with no
\* required parameter it is the name with the cursor inside empty parentheses.
C20_SnippetShape ==
    ListReturned =>
        \A i \in 1..Len(call.completions) :
            IsSnippet(ret.value[i]) =>
                LET d == call.completions[i]
                    text == ret.value[i].insert_text
                IN  /\ ret.value[i].insert_text_format = "Snippet"
                    /\ IF RequiredPositions(d) = {}
                       THEN text = d.name \o <<"(", "$", "0", ")">>
                       ELSE IsPlaceholderSnippet(text, d)

\* everyone(a, b, c=None, d=2, *args) got "everyone(${1:a}, ${2:b})$0" and
\* opt(c=None, **kwargs) got "opt($0)"
C20_Witness ==
    /\ ListReturned
    /\ call.completions = <<candEveryone, candOptional>>
    /\ ret.value[1].insert_text =
           everyone \o <<"(", "$", "{", "1", ":", "a", "}", ",", " ",
                         "$", "{", "2", ":", "b", "}", ")", "$", "0">>
    /\ ret.value[2].insert_text = opt \o <<"(", "$", "0", ")">>

\* the documentationFormat list of the client of the current call
ClientKinds ==
    IF /\ "completionItem" \in DOMAIN call.completion_capabilities
       /\ "documentationFormat" \in
              DOMAIN call.completion_capabilities.completionItem
    THEN call.completion_capabilities.completionItem.documentationFormat
    ELSE <<"markdown">>

\* the kind the claim names for a client list: its first element among
\* markdown and plaintext, markdown when it has none
NegotiatedKind(kinds) ==
    LET mutual == {i \in 1..Len(kinds) : kinds[i] \in {"markdown", "plaintext"}}
    IN  IF mutual = {} THEN "markdown"
        ELSE kinds[CHOOSE i \in mutual : \A j \in mutual : i <= j]

\* the items a call returned
ReturnedItems ==
    IF ret.status # "ok" THEN {}
    ELSE IF call.op = "list" THEN {ret.value[k] : k \in 1..Len(ret.value)}
    ELSE {ret.value}

\* C21: the documentation of every item a list or resolve call returns has the
\* first kind of the client's list that the server supports, in the client's
\* order, and markdown when the list is empty or names no supported kind.
C21_FirstMutualKind ==
    \A item \in ReturnedItems :
        "documentation" \in DOMAIN item =>
            item.documentation.kind = NegotiatedKind(ClientKinds)

\* a client listing <<rst, plaintext, markdown>> got plaintext documentation
\* from a resolve call
C21_Witness ==
    /\ call.op = "resolve"
    /\ ClientKinds = <<"rst", "plaintext", "markdown">>
    /\ ret.status = "ok"
    /\ ret.value.documentation.kind = "plaintext"

\* the same client got plaintext documentation in the items of an eager list
\* call
C21_WitnessList ==
    /\ call.op = "list"
    /\ ClientKinds = <<"rst", "plaintext", "markdown">>
    /\ ret.status = "ok"
    /\ "documentation" \in DOMAIN ret.value[1]
    /\ ret.value[1].documentation.kind = "plaintext"

\* the name starts with an underscore
Underscored(d) == d.name[1] = "_"

\* C22: of two candidates of which one name starts with an underscore, the
\* other one's sort key is strictly smaller, whatever their names and their
\* order in the list; the sort keys of two candidates of the same group order
\* as their names do.
C22_UnderscoreSortsLast ==
    (ListReturned /\ Len(call.completions) = 2) =>
        LET d1 == call.completions[1]
            d2 == call.completions[2]
            k1 == ret.value[1].sort_text
            k2 == ret.value[2].sort_text
        IN  /\ (~Underscored(d1) /\ Underscored(d2)) => StrLess(k1, k2)
            /\ (Underscored(d1) /\ ~Underscored(d2)) => StrLess(k2, k1)
            /\ (Underscored(d1) <=> Underscored(d2)) =>
                  /\ StrLess(k1, k2) <=> StrLess(d1.name, d2.name)
                  /\ StrLess(k2, k1) <=> StrLess(d2.name, d1.name)

\* the backend offered "_a" before "zz", and "_a" is the smaller name: yet
\* the key of "zz" is the smaller one
C22_Witness ==
    /\ ListReturned
    /\ Len(call.completions) = 2
    /\ call.completions[1].name = <<"_", "a">>
    /\ call.completions[2].name = <<"z", "z">>
    /\ StrLess(call.completions[1].name, call.completions[2].name)
    /\ StrLess(ret.value[2].sort_text, ret.value[1].sort_text)

\* the protocol kinds of the tags the claim names
NamedKinds ==
    [module |-> "Module", class |-> "Class", function |-> "Function",
     param |-> "Variable", path |-> "File", keyword |-> "Keyword",
     property |-> "Property", statement |-> "Variable"]

\* the tags of the mapping
MappedTags == DOMAIN NamedKinds \cup {"namespace", "instance"}

\* C23: formatting never fails because of the kind tag: a tag of the fixed
\* vocabulary gives its fixed protocol kind, a tag outside the mapping gives
\* the unspecified kind.
C23_KindMappingTotal ==
    (call.op = "list" /\ ret.status # "pending" /\ Len(call.completions) > 0) =>
        /\ ret.status = "ok"
        /\ Len(ret.value) = Len(call.completions)
        /\ \A i \in 1..Len(call.completions) :
              LET type == call.completions[i].type
                  kind == ret.value[i].kind
              IN  /\ type \in DOMAIN NamedKinds => kind = NamedKinds[type]
                  /\ type \in MappedTags => kind # None
                  /\ type \notin MappedTags => kind = None

\* an unknown tag and a keyword in one list: unspecified kind and Keyword
C23_Witness ==
    /\ ListReturned
    /\ Len(call.completions) = 2
    /\ call.completions[1].type = "generic"
    /\ call.completions[2].type = "keyword"
    /\ ret.value[1].kind = None
    /\ ret.value[2].kind = "Keyword"

\* C24: a list call whose configuration names an environment path queries the
\* backend in the environment created for that path, which is kept in the
\* environment cache and so created once; with no path it uses the default
\* environment.
C24_ConfiguredEnvironmentUsed ==
    (call.op = "list" /\ ret.status \in {"ok", "None"}) =>
        LET path == Get(call.jedi_config, "environment", None)
        IN  IF path = None
            THEN script.environment = DefaultEnvironment
            ELSE /\ script.environment = CreatedEnvironment(path)
                 /\ path \in DOMAIN JEDI_ENVIRONMENTS
                 /\ JEDI_ENVIRONMENTS[path] = CreatedEnvironment(path)

\* a list call with the cursor on the first line that offers a function
FirstLineCall ==
    /\ ListReturned
    /\ call.position.line = 0
    /\ call.completions[1] = fooA

IsContinuationLine(l) ==
    \/ EndsWith(RStrip(l), "\\")
    \/ EndsWith(RStrip(l), "(")
    \/ EndsWith(RStrip(l), ",")

\* the 0-based lines walked past from the cursor line: the continuation lines
\* right before it
WalkedPast(document, position) ==
    {j \in 0..(position.line - 1) :
        \A i \in j..(position.line - 1) :
            IsContinuationLine(LinesOf(document)[i + 1])}

\* the number of c in s
Count(s, c) == Cardinality({i \in 1..Len(s) : s[i] = c})

\* the text holds an open parenthesis that is not closed
HasUnmatchedOpen(text) == Count(text, "(") > Count(text, ")")

\* the statement fragment the claim describes: the walked-past lines and the
\* cursor line up to the cursor, the text after the last ";", stripped, and a
\* closing parenthesis when one is called for
ExpectedFragment(document, position) ==
    LET walked == WalkedPast(document, position)
        first == IF walked = {} THEN position.line
                 ELSE CHOOSE j \in walked : \A i \in walked : j <= i
        cursor_line == TextBeforeCursor(document, position)
        accumulated ==
            [i \in 1..(position.line - first + 1) |->
                IF i = position.line - first + 1 THEN cursor_line
                ELSE LinesOf(document)[first + i]]
        closing ==
            \/ \E j \in walked : EndsWith(RStrip(LinesOf(document)[j + 1]), "(")
            \/ HasUnmatchedOpen(cursor_line)
    IN  Strip(RSplitLast(Join(accumulated, "\n"), ";"))
            \o (IF closing THEN <<")">> ELSE <<>>)

\* C26: the fragment handed to the parser gets a closing parenthesis exactly
\* when a walked-past line ended in "(" or the cursor line up to the cursor
\* holds an unmatched "("; a cursor line with matched parentheses and no such
\* walked-past line gets none.
C26_ClosingParenIffUnmatched ==
    (call.op = "list" /\ ret.status # "pending") =>
        SnippetCode(call.document, call.position)
            = ExpectedFragment(call.document, call.position)

\* item is what formatting candidate d gives, for some markup kind, snippet
\* choice and place with respect to the budget, with the fields a resolve call
\* adds computed from d as well
FormattedFrom(item, d) ==
    /\ \E markup_kind \in SERVER_SUPPORTED_MARKUP_KINDS,
          include_params \in BOOLEAN, resolve_label_or_snippet \in BOOLEAN :
           Unresolved(item) =
               [data |-> item.data]
                   @@ _format_completion(d, markup_kind, include_params, FALSE,
                                         resolve_label_or_snippet)
    /\ "detail" \in DOMAIN item => item.detail = _detail(d)
    /\ "documentation" \in DOMAIN item =>
           \E markup_kind \in SERVER_SUPPORTED_MARKUP_KINDS :
               item.documentation = Documentation(d, markup_kind)

\* C27: the entry stored under a label is a pair of an item with that label and
\* the candidate the item was formatted from, also when object variants were
\* appended to the list.
C27_EntriesConsistent ==
    \A label \in DOMAIN Table :
        /\ Table[label][1].label = label
        /\ FormattedFrom(Table[label][1], Table[label][2])

\* a list of a function and a class to which the class's object variant was
\* appended: the entry of "KeyError()" pairs the class item with the class
C27_Witness ==
    /\ ListReturned
    /\ call.completions = <<fooA, candKeyError>>
    /\ Len(ret.value) = 3
    /\ ret.value[3].kind = "TypeParameter"
    /\ ret.value[2].label \in DOMAIN Table
    /\ Table[ret.value[2].label] = <<ret.value[2], candKeyError>>
    /\ Table[ret.value[1].label][2] = fooA

\* the resolve call that ends the step found an entry for its label
ResolvedFromTable ==
    /\ call'.op = "resolve"
    /\ "LAST_JEDI_COMPLETIONS" \in DOMAIN JEDI_SHARED_DATA
    /\ call'.completion_item.label \in DOMAIN Table

\* the stored item of the entry with detail and documentation added, for a
\* client with the given documentationFormat list
StoredItemResolved(entry, kinds) ==
    [detail |-> _detail(entry[2]),
     documentation |-> Documentation(entry[2], NegotiatedKind(kinds))]
        @@ Unresolved(entry[1])

\* C28: a resolve call for a label of the table returns the stored item with
\* detail and documentation added, whatever the other fields of the input
\* item: the result depends on the entry and on the client capabilities only.
C28_ResolveDependsOnEntryOnly ==
    [][ResolvedFromTable =>
          ret' = [status |-> "ok",
                  value |-> StoredItemResolved(
                                Table[call'.completion_item.label],
                                ClientKinds')]]_vars

\* a resolve call with an item of another document and with another insert
\* text than the stored item of its label returned the stored item
C28_Witness ==
    /\ call.op = "resolve"
    /\ ret.status = "ok"
    /\ call.completion_item.label \in DOMAIN Table
    /\ call.completion_item.data # ret.value.data
    /\ call.completion_item.insert_text # ret.value.insert_text
    /\ ret.value = Table[call.completion_item.label][1]
    /\ "documentation" \in DOMAIN ret.value

\* what a resolve call may do to the table: the labels stay, the entries of
\* the other labels stay, and the entry of the resolved label keeps its
\* candidate and its item, which gets detail and documentation
ResolveFrame ==
    LET label == call'.completion_item.label
    IN  /\ DOMAIN Table' = DOMAIN Table
        /\ \A other \in DOMAIN Table \ {label} : Table'[other] = Table[other]
        /\ label \in DOMAIN Table =>
              /\ Table'[label][2] = Table[label][2]
              /\ Unresolved(Table'[label][1]) = Unresolved(Table[label][1])
              /\ {"detail", "documentation"} \subseteq DOMAIN Table'[label][1]
        /\ label \notin DOMAIN Table => JEDI_SHARED_DATA' = JEDI_SHARED_DATA

\* C29: a resolve call keeps the labels of the table and every entry but the
\* resolved one, to whose item it adds detail and documentation; for an absent
\* label it changes nothing; only a list call changes the labels of the table.
C29_ResolveFrame ==
    [][/\ call'.op = "resolve" => ResolveFrame
       /\ DOMAIN Table' # DOMAIN Table => call'.op = "list"]_vars

\* a table of two entries of which a resolve call resolved one and left the
\* other without documentation
C29_Witness ==
    /\ call.op = "resolve"
    /\ ret.status = "ok"
    /\ call.completion_item.label \in DOMAIN Table
    /\ "documentation" \in DOMAIN Table[call.completion_item.label][1]
    /\ \E other \in DOMAIN Table :
          /\ other # call.completion_item.label
          /\ "documentation" \notin DOMAIN Table[other][1]

====
